---- MODULE Spec2Model ----
(***************************************************************************)
(* A model of seqkmer: the bounded producer / workers / collector pipeline *)
(* of parallel.rs (read_parallel, buffer_read_parallel,                    *)
(* buffer_map_parallel), the byte framing of buffer_read_parallel's        *)
(* producer, and the minimizer scanner of mmscanner.rs.                    *)
(*                                                                         *)
(* The specifications that share the module:                               *)
(*   Spec      read_parallel's pipeline (SpecAll: the three entry points;  *)
(*             FairSpec: read_parallel under fair scheduling)              *)
(*   SpecEarly read_parallel with a collector that may return early        *)
(*   SpecBuf   the producer loop of buffer_read_parallel, byte by byte     *)
(*   SpecScan  MinimizerIterator::next over a byte sequence                *)
(*   SpecWin   a MinimizerWindow driven by calls of next and clear         *)
(*   SpecCand  to_candidate_lmer applied to one l-mer                      *)
(*   SpecPair  an OptionPair and the calls of its methods                  *)
(*   SpecBase  a Base<MinimizerIterator>: next on its mates, fold          *)
(*   SpecCur   a Cursor driven by calls of next_lmer and clear             *)
(*   SpecLine  MinimizerIterator::next over sequences with line breaks     *)
(*   SpecDist  a SpaceDist driven by calls of add and fill_tail_with_zeros *)
(***************************************************************************)
EXTENDS Integers, Sequences, FiniteSets, Bags, TLC

\* ------------------------------------------------------------------ bounds
\* Largest n_threads tried (n_threads ranges over 1..MaxThreads).
MaxThreads == 4
\* Most batches a reader / source / map yields in one run.
MaxBatches == 6
\* The same for the runs checked for termination and for the three entry points.
MaxFairBatches == 5
\* The same for the runs in which the collector closure may return early.
MaxEarlyBatches == 3
\* buffer_read_parallel: longest source in bytes, largest sizeof(D), largest
\* buffer_size.
MaxSrcLen == 6
MaxSlot == 3
MaxBufSize == 2
\* The scanner: longest byte sequence scanned, and how many times next is
\* called again after it has returned None.
MaxSeqLen == 5
MaxNoneCalls == 1
\* A MinimizerWindow driven directly: largest capacity, largest candidate, and
\* most calls of next.
MaxCap == 3
MaxCand == 2
MaxWinCalls == 5
\* to_candidate_lmer: the largest l-mer tried besides the test's.
MaxLmer == 63
\* The scanner over sequences with line breaks: the longest sequence.
MaxLineLen == 4
\* A Cursor driven directly: largest l_mer, and most calls of next_lmer.
MaxCurL == 3
MaxCurCalls == 5
\* A SpaceDist: the largest bound of its range (a and b range over 0..MaxRangeEnd).
MaxRangeEnd == 4

\* -------------------------------------------------------------- variables
VARIABLES
    \* ---- the pipeline (parallel.rs)
    flavor,        \* which entry point was called
    n_threads,     \* its n_threads argument
    funcStops,     \* the collector closure may return before it has seen None
    srcBatches,    \* the source holds at most this many batches
    mainPc,        \* position of the calling thread
    buffer_len,    \* capacity of both channels (0: channels not created)
    poolSize,      \* threads of the pool (0: pool not created)
    spawned,       \* worker jobs submitted so far (the loop index of the for)
    deadThreads,   \* pool threads lost to a panicking job
    inCh,          \* input channel: batches in flight, oldest first
    senderAlive,   \* the input Sender exists and is not dropped
    outCh,         \* output channel: results in flight, oldest first
    doneSendRefs,  \* strong count of Arc<Sender> of the output channel
    recvAlive,     \* the output Receiver (parallel_result) is not dropped
    prodPc,        \* producer job: none | queued | read | send | done
    prodBatch,     \* the batch the producer holds (0: none)
    readerCalls,   \* calls of reader.next / reader.read / map iterator next
    yielded,       \* batches the source has yielded so far
    readerFailed,  \* the source has returned Err
    wPc,           \* worker jobs: none | queued | recv | send | done | panicked
    wBatch,        \* the batch each worker holds (0: none)
    colPc,         \* collector job: none | queued | run | done
    received,      \* results ParallelResult::next has returned, in order
    sawNone,       \* ParallelResult::next has returned None
    \* ---- history of the pipeline run (not program state)
    taken,         \* per batch: how many times a worker's recv returned it
    worked,        \* per batch: how many times work was invoked on it
    sentOrder,     \* results in the order their send completed
    \* ---- the producer of buffer_read_parallel, byte by byte
    slot_size,     \* std::mem::size_of::<D>()
    buffer_size,   \* the buffer_size argument, in records
    srcLen,        \* bytes the source holds
    srcPos,        \* bytes the source has handed out
    batch_buffer,  \* the producer's byte buffer
    bufPc,         \* the producer loop: read | done
    lastRead,      \* bytes_read of the last read (-1: none yet, or it failed)
    bufFailed,     \* a read has returned Err
    bufSent,       \* the batches sent, in order; a batch is a sequence of records
    \* ---- the scanner (mmscanner.rs)
    iter,          \* the MinimizerIterator
    lastRet,       \* what the last call of next returned (<< >>: None, <<x>>: Some(x))
    emitted,       \* history: the items next has returned, in order
    emittedAt,     \* history: the bytes consumed when each item was returned
    noneCalls,     \* history: how many calls of next returned None
    \* ---- a MinimizerWindow driven call by call
    win,           \* the MinimizerWindow
    winCands,      \* history: the candidates passed to next since the last clear
    winEmits,      \* history: the values next returned since the last clear
    winRet,        \* what the last call of next returned
    winOp,         \* the last call: new | next | clear
    winCalls,      \* history: calls of next since construction
    \* ---- to_candidate_lmer applied to one l-mer
    candMeros,     \* the Meros
    candLmer,      \* the l-mer
    candOut,       \* << >> before the call, <<candidate>> after it
    \* ---- an OptionPair and the calls made on it (utils.rs)
    pair,          \* the OptionPair
    pairBefore,    \* history: the OptionPair before the last call
    pairOp,        \* the last call: new | single | map | reduce_str | apply | apply_mut
    pairArg,       \* history: the closure (and separator) passed to the last call, and
                   \* for map the elements the closure was applied to
    pairOut,       \* what the last call returned
    \* ---- a Base<MinimizerIterator> (mmscanner.rs:276-322)
    base,          \* its body: an OptionPair of MinimizerIterators
    baseOp,        \* the last call: new | next | fold
    baseItems,     \* history: per mate, how many items its next has returned
    baseFold,      \* what the last fold did: f's calls and the vector returned
    \* ---- a Cursor driven call by call
    cur,           \* the Cursor
    curCodes,      \* history: the codes passed to next_lmer since new or the last clear
    curRet,        \* what the last call of next_lmer returned
    curOp,         \* the last call: new | next_lmer | clear
    curCalls,      \* history: calls of next_lmer since construction
    \* ---- a SpaceDist driven call by call (reader.rs:225-276)
    dist,          \* the SpaceDist
    distBefore,    \* history: the SpaceDist before the last call
    distOp,        \* the last call: new | add | fill_tail_with_zeros
    distArg        \* history: the arguments of the last add

pipeVars == <<flavor, n_threads, funcStops, srcBatches, mainPc, buffer_len,
              poolSize, spawned, deadThreads, inCh, senderAlive, outCh, doneSendRefs, recvAlive,
              prodPc, prodBatch, readerCalls, yielded, readerFailed, wPc, wBatch,
              colPc, received, sawNone, taken, worked, sentOrder>>

bufVars == <<slot_size, buffer_size, srcLen, srcPos, batch_buffer, bufPc, lastRead,
             bufFailed, bufSent>>

scanVars == <<iter, lastRet, emitted, emittedAt, noneCalls>>

winVars == <<win, winCands, winEmits, winRet, winOp, winCalls>>

candVars == <<candMeros, candLmer, candOut>>

pairVars == <<pair, pairBefore, pairOp, pairArg, pairOut>>

baseVars == <<base, baseOp, baseItems, baseFold>>

curVars == <<cur, curCodes, curRet, curOp, curCalls>>

distVars == <<dist, distBefore, distOp, distArg>>

vars == <<pipeVars, bufVars, scanVars, winVars, candVars, pairVars, baseVars, curVars, distVars>>

\* ------------------------------------------------------------ the pipeline
Flavors == {"read", "buffer_read", "buffer_map"}
Workers == 1 .. (MaxThreads - 2)
Batches == 1 .. MaxBatches

\* The value the work closure returns for a batch (for read_parallel: work applied
\* to scan_sequence of each record of the batch). Two batches may give one value.
Work(b) == (b * b) % 3

\* A result in flight: the value, tagged with the batch it came from (the tag is
\* history, the program sends the value alone).
Result(b) == [batch |-> b, val |-> Work(b)]

\* (mutant) the assertion off by one: n_threads = 2 passes.
AssertThreadsOffByOne(n) == n > 1

\* assert!(n_threads > 2)
AssertThreads(n) == n > 2

\* (mutant) one more slot per channel.
BufferLenWide(n) == n + 3

\* let buffer_len = n_threads + 2
BufferLen(n) == n + 2

\* for _ in 0..n_threads - 2
WorkerCount(n) == n - 2

\* Pool::new(n_threads as u32)
PoolThreads(n) == n

\* Pool threads busy with a job, or dead.
Busy ==
    (IF prodPc \in {"read", "send"} THEN 1 ELSE 0)
  + Cardinality({w \in Workers : wPc[w] \in {"recv", "send"}})
  + (IF colPc = "run" THEN 1 ELSE 0)
  + deadThreads

PipeInit ==
    /\ flavor \in Flavors
    /\ n_threads \in 1 .. MaxThreads
    /\ funcStops \in BOOLEAN
    /\ srcBatches \in {MaxEarlyBatches, MaxFairBatches, MaxBatches}
    /\ mainPc = "entry"
    /\ buffer_len = 0
    /\ poolSize = 0
    /\ spawned = 0
    /\ deadThreads = 0
    /\ inCh = << >>
    /\ senderAlive = FALSE
    /\ outCh = << >>
    /\ doneSendRefs = 0
    /\ recvAlive = FALSE
    /\ prodPc = "none"
    /\ prodBatch = 0
    /\ readerCalls = 0
    /\ yielded = 0
    /\ readerFailed = FALSE
    /\ wPc = [w \in Workers |-> "none"]
    /\ wBatch = [w \in Workers |-> 0]
    /\ colPc = "none"
    /\ received = << >>
    /\ sawNone = FALSE
    /\ taken = [b \in Batches |-> 0]
    /\ worked = [b \in Batches |-> 0]
    /\ sentOrder = << >>

mainVars == <<mainPc, buffer_len, poolSize, spawned>>
prodVars == <<prodPc, prodBatch, readerCalls, yielded, readerFailed>>
colVars  == <<colPc, received, sawNone>>
paramVars == <<flavor, n_threads, funcStops, srcBatches>>
\* What no step of the pipeline changes: the call's parameters, and the state of
\* every other part of the crate.
frameVars == <<paramVars, bufVars, scanVars, winVars, candVars, pairVars, baseVars,
               curVars, distVars>>

\* ---- the calling thread

\* parallel.rs:125 (217, 317): the assertion; a failed assertion aborts the call.
MainAssert ==
    /\ mainPc = "entry"
    /\ mainPc' = IF AssertThreads(n_threads) THEN "setup" ELSE "aborted"
    /\ UNCHANGED <<frameVars, buffer_len, poolSize, spawned, deadThreads, inCh,
                   senderAlive, outCh, doneSendRefs, recvAlive, prodVars, wPc,
                   wBatch, colVars, taken, worked, sentOrder>>

\* parallel.rs:126-133: both channels, the Arcs, the pool, parallel_result.
MainSetup ==
    /\ mainPc = "setup"
    /\ buffer_len' = BufferLen(n_threads)
    /\ poolSize' = PoolThreads(n_threads)
    /\ senderAlive' = TRUE
    /\ doneSendRefs' = 1
    /\ recvAlive' = TRUE
    /\ mainPc' = "spawn_producer"
    /\ UNCHANGED <<frameVars, spawned, deadThreads, inCh, outCh, prodVars, wPc,
                   wBatch, colVars, taken, worked, sentOrder>>

\* parallel.rs:137: pool_scope.execute(producer).
MainSpawnProducer ==
    /\ mainPc = "spawn_producer"
    /\ prodPc' = "queued"
    /\ mainPc' = "spawn_workers"
    /\ UNCHANGED <<frameVars, buffer_len, poolSize, spawned, deadThreads, inCh,
                   senderAlive, outCh, doneSendRefs, recvAlive, prodBatch,
                   readerCalls, yielded, readerFailed, wPc, wBatch, colVars,
                   taken, worked, sentOrder>>

\* parallel.rs:144-158: one turn of the for loop: clone both Arcs, execute a worker.
MainSpawnWorker ==
    /\ mainPc = "spawn_workers"
    /\ spawned < WorkerCount(n_threads)
    /\ spawned' = spawned + 1
    /\ wPc' = [wPc EXCEPT ![spawned + 1] = "queued"]
    /\ doneSendRefs' = doneSendRefs + 1
    /\ UNCHANGED <<frameVars, mainPc, buffer_len, poolSize, deadThreads, inCh,
                   senderAlive, outCh, recvAlive, prodVars, wBatch, colVars,
                   taken, worked, sentOrder>>

\* (mutant) drop(done_send) left out: the caller keeps its count of the Sender.
MainKeepDoneSend ==
    /\ mainPc = "spawn_workers"
    /\ spawned >= WorkerCount(n_threads)
    /\ mainPc' = "spawn_collector"
    /\ UNCHANGED <<frameVars, buffer_len, poolSize, spawned, deadThreads, inCh,
                   senderAlive, outCh, doneSendRefs, recvAlive, prodVars, wPc,
                   wBatch, colVars, taken, worked, sentOrder>>

\* parallel.rs:161: the loop is over; drop(done_send) releases the caller's count.
MainDropDoneSend ==
    /\ mainPc = "spawn_workers"
    /\ spawned >= WorkerCount(n_threads)
    /\ doneSendRefs' = doneSendRefs - 1
    /\ mainPc' = "spawn_collector"
    /\ UNCHANGED <<frameVars, buffer_len, poolSize, spawned, deadThreads, inCh,
                   senderAlive, outCh, recvAlive, prodVars, wPc, wBatch, colVars,
                   taken, worked, sentOrder>>

\* parallel.rs:162-164: pool_scope.execute(collector).
MainSpawnCollector ==
    /\ mainPc = "spawn_collector"
    /\ colPc' = "queued"
    /\ mainPc' = "join_all"
    /\ UNCHANGED <<frameVars, buffer_len, poolSize, spawned, deadThreads, inCh,
                   senderAlive, outCh, doneSendRefs, recvAlive, prodVars, wPc,
                   wBatch, received, sawNone, taken, worked, sentOrder>>

JobsOver ==
    /\ prodPc = "done"
    /\ \A w \in Workers : wPc[w] \in {"none", "done", "panicked"}
    /\ colPc = "done"

\* (mutant) the reader's error is handed to the caller.
ReturnValuePropagates(failed) == IF failed THEN "failed" ELSE "returned"

\* parallel.rs:169 (269, 356): the value of the call is the literal Ok(()),
\* whatever reader.next returned ("returned" stands for Ok(()), "failed" for an
\* Err handed to the caller).
ReturnValue(failed) == "returned"

\* parallel.rs:166-169: join_all waits for every job, panics when a job panicked,
\* and otherwise the call returns Ok(()).
MainJoinAll ==
    /\ mainPc = "join_all"
    /\ JobsOver
    /\ mainPc' = IF \E w \in Workers : wPc[w] = "panicked"
                   THEN "panicked"
                   ELSE ReturnValue(readerFailed)
    /\ UNCHANGED <<frameVars, buffer_len, poolSize, spawned, deadThreads, inCh,
                   senderAlive, outCh, doneSendRefs, recvAlive, prodVars, wPc,
                   wBatch, colVars, taken, worked, sentOrder>>

\* ---- jobs are taken by idle pool threads

\* A queued job starts as soon as a pool thread is idle.
ProducerStart ==
    /\ prodPc = "queued"
    /\ Busy < poolSize
    /\ prodPc' = "read"
    /\ UNCHANGED <<frameVars, mainVars, deadThreads, inCh, senderAlive, outCh,
                   doneSendRefs, recvAlive, prodBatch, readerCalls, yielded,
                   readerFailed, wPc, wBatch, colVars, taken, worked, sentOrder>>

WorkerStart(w) ==
    /\ wPc[w] = "queued"
    /\ Busy < poolSize
    /\ wPc' = [wPc EXCEPT ![w] = "recv"]
    /\ UNCHANGED <<frameVars, mainVars, deadThreads, inCh, senderAlive, outCh,
                   doneSendRefs, recvAlive, prodVars, wBatch, colVars, taken,
                   worked, sentOrder>>

CollectorStart ==
    /\ colPc = "queued"
    /\ Busy < poolSize
    /\ colPc' = "run"
    /\ UNCHANGED <<frameVars, mainVars, deadThreads, inCh, senderAlive, outCh,
                   doneSendRefs, recvAlive, prodVars, wPc, wBatch, received,
                   sawNone, taken, worked, sentOrder>>

\* ---- the producer job

\* What one call of the source returns.
ReaderOutcomes == {"some", "none", "err"}     \* Reader::next: Ok(Some), Ok(None), Err
ReadOutcomes   == {"bytes", "zero", "err"}    \* Read::read: Ok(n > 0), Ok(0), Err
MapOutcomes    == {"some", "none"}            \* hash_map::Iter::next

\* (mutant) the loop tries again after a failed read.
ReadLoopPcRetry(outcome) ==
    IF outcome = "some" THEN "send" ELSE IF outcome = "err" THEN "read" ELSE "done"

\* while let Ok(Some(seqs)) = reader.next(): where the loop goes on an outcome.
ReadLoopPc(outcome) == IF outcome = "some" THEN "send" ELSE "done"

\* while let Ok(bytes_read) = reader.read(..) { if bytes_read == 0 { break; } .. }
BufLoopPc(outcome) == IF outcome = "bytes" THEN "send" ELSE "done"

\* for entry in map
MapLoopPc(outcome) == IF outcome = "some" THEN "send" ELSE "done"

\* One call of the source by the producer: the source yields the next batch
\* (`yields`), ends, or fails; the loop goes to `pc`. The closure ends with the
\* loop, which drops the input Sender it owns.
SourceStep(yields, failed, pc) ==
    /\ readerCalls <= srcBatches + 1
    /\ yields => yielded < srcBatches
    /\ readerCalls' = readerCalls + 1
    /\ yielded' = IF yields THEN yielded + 1 ELSE yielded
    /\ prodBatch' = IF yields THEN yielded + 1 ELSE 0
    /\ readerFailed' = (readerFailed \/ failed)
    /\ prodPc' = pc
    /\ senderAlive' = (pc # "done")
    /\ UNCHANGED <<frameVars, mainVars, deadThreads, inCh, outCh, doneSendRefs,
                   recvAlive, wPc, wBatch, colVars, taken, worked, sentOrder>>

\* parallel.rs:137-141, the loop head of read_parallel's producer.
ProducerRead ==
    /\ flavor = "read"
    /\ prodPc = "read"
    /\ \E outcome \in ReaderOutcomes :
         SourceStep(outcome = "some", outcome = "err", ReadLoopPc(outcome))

\* parallel.rs:233-241, the loop head of buffer_read_parallel's producer.
BufProducerRead ==
    /\ flavor = "buffer_read"
    /\ prodPc = "read"
    /\ \E outcome \in ReadOutcomes :
         SourceStep(outcome = "bytes", outcome = "err", BufLoopPc(outcome))

\* parallel.rs:330, the loop head of buffer_map_parallel's producer.
MapProducerNext ==
    /\ flavor = "buffer_map"
    /\ prodPc = "read"
    /\ \E outcome \in MapOutcomes :
         SourceStep(outcome = "some", FALSE, MapLoopPc(outcome))

\* parallel.rs:139 (242-244, 331): sender.send(seqs) blocks while the channel is
\* full. It fails only when every Receiver is dropped, which cannot be: the caller
\* keeps its Arc<Receiver> until the call returns.
ProducerSend ==
    /\ prodPc = "send"
    /\ Len(inCh) < buffer_len
    /\ inCh' = Append(inCh, prodBatch)
    /\ prodBatch' = 0
    /\ prodPc' = "read"
    /\ UNCHANGED <<frameVars, mainVars, deadThreads, senderAlive, outCh,
                   doneSendRefs, recvAlive, readerCalls, yielded, readerFailed,
                   wPc, wBatch, colVars, taken, worked, sentOrder>>

\* ---- a worker job

\* parallel.rs:149-154 (254-255, 341-342): receiver.recv() takes the oldest batch,
\* blocks while the channel is empty and the Sender lives, and fails once it is
\* empty and the Sender is dropped: the loop and the closure end, dropping its
\* Arc clones. On a batch the worker maps scan_sequence over it and calls work;
\* the output is then ready to send.
WorkerRecv(w) ==
    /\ wPc[w] = "recv"
    /\ IF inCh # << >>
         THEN /\ wBatch' = [wBatch EXCEPT ![w] = Head(inCh)]
              /\ inCh' = Tail(inCh)
              /\ taken' = [taken EXCEPT ![Head(inCh)] = @ + 1]
              /\ worked' = [worked EXCEPT ![Head(inCh)] = @ + 1]
              /\ wPc' = [wPc EXCEPT ![w] = "send"]
              /\ UNCHANGED doneSendRefs
         ELSE /\ ~senderAlive
              /\ wPc' = [wPc EXCEPT ![w] = "done"]
              /\ doneSendRefs' = doneSendRefs - 1
              /\ UNCHANGED <<wBatch, inCh, taken, worked>>
    /\ UNCHANGED <<frameVars, mainVars, deadThreads, senderAlive, outCh, recvAlive,
                   prodVars, colVars, sentOrder>>

\* (mutant) the result jumps the queue: it is put in front of the pending ones.
WorkerSendFront(w) ==
    /\ wPc[w] = "send"
    /\ recvAlive
    /\ Len(outCh) < buffer_len
    /\ outCh' = <<Result(wBatch[w])>> \o outCh
    /\ sentOrder' = Append(sentOrder, Result(wBatch[w]))
    /\ wPc' = [wPc EXCEPT ![w] = "recv"]
    /\ wBatch' = [wBatch EXCEPT ![w] = 0]
    /\ UNCHANGED <<frameVars, mainVars, inCh, senderAlive, recvAlive, prodVars,
                   colVars, taken, worked, doneSendRefs, deadThreads>>

\* (mutant) a failed send is ignored (let _ = done_send.send(output)): the worker
\* goes on with the next batch.
WorkerSendIgnoreError(w) ==
    /\ wPc[w] = "send"
    /\ IF ~recvAlive
         THEN /\ wPc' = [wPc EXCEPT ![w] = "recv"]
              /\ UNCHANGED <<outCh, sentOrder, doneSendRefs, deadThreads>>
         ELSE /\ Len(outCh) < buffer_len
              /\ outCh' = Append(outCh, Result(wBatch[w]))
              /\ sentOrder' = Append(sentOrder, Result(wBatch[w]))
              /\ wPc' = [wPc EXCEPT ![w] = "recv"]
              /\ UNCHANGED <<doneSendRefs, deadThreads>>
    /\ wBatch' = [wBatch EXCEPT ![w] = 0]
    /\ UNCHANGED <<frameVars, mainVars, inCh, senderAlive, recvAlive, prodVars,
                   colVars, taken, worked>>

\* parallel.rs:155 (256, 343): done_send.send(output) blocks while the channel is
\* full; with the Receiver dropped it fails and expect panics: the job unwinds
\* (its batch and Arc clones are dropped) and the pool thread dies. An iteration
\* that ends releases its batch.
WorkerSend(w) ==
    /\ wPc[w] = "send"
    /\ IF ~recvAlive
         THEN /\ wPc' = [wPc EXCEPT ![w] = "panicked"]
              /\ doneSendRefs' = doneSendRefs - 1
              /\ deadThreads' = deadThreads + 1
              /\ UNCHANGED <<outCh, sentOrder>>
         ELSE /\ Len(outCh) < buffer_len
              /\ outCh' = Append(outCh, Result(wBatch[w]))
              /\ sentOrder' = Append(sentOrder, Result(wBatch[w]))
              /\ wPc' = [wPc EXCEPT ![w] = "recv"]
              /\ UNCHANGED <<doneSendRefs, deadThreads>>
    /\ wBatch' = [wBatch EXCEPT ![w] = 0]
    /\ UNCHANGED <<frameVars, mainVars, inCh, senderAlive, recvAlive, prodVars,
                   colVars, taken, worked>>

\* ---- the collector job

\* (mutant) next built on try_recv: None as soon as the channel is empty.
CollectorNextTryRecv ==
    /\ colPc = "run"
    /\ IF outCh # << >>
         THEN /\ received' = Append(received, Head(outCh))
              /\ outCh' = Tail(outCh)
              /\ UNCHANGED <<colPc, sawNone, recvAlive>>
         ELSE /\ sawNone' = TRUE
              /\ colPc' = "done"
              /\ recvAlive' = FALSE
              /\ UNCHANGED <<received, outCh>>
    /\ UNCHANGED <<frameVars, mainVars, deadThreads, inCh, senderAlive,
                   doneSendRefs, prodVars, wPc, wBatch, taken, worked, sentOrder>>

\* parallel.rs:47-49 inside func (163): ParallelResult::next returns the oldest
\* result, blocks while the channel is empty and a Sender lives, and returns None
\* once it is empty and every Sender is dropped. A func that drains returns on
\* None; the closure then ends and drops parallel_result.
CollectorNext ==
    /\ colPc = "run"
    /\ IF outCh # << >>
         THEN /\ received' = Append(received, Head(outCh))
              /\ outCh' = Tail(outCh)
              /\ UNCHANGED <<colPc, sawNone, recvAlive>>
         ELSE /\ doneSendRefs = 0
              /\ sawNone' = TRUE
              /\ colPc' = "done"
              /\ recvAlive' = FALSE
              /\ UNCHANGED <<received, outCh>>
    /\ UNCHANGED <<frameVars, mainVars, deadThreads, inCh, senderAlive,
                   doneSendRefs, prodVars, wPc, wBatch, taken, worked, sentOrder>>

\* parallel.rs:163: func is the caller's; it may return without draining.
CollectorReturnEarly ==
    /\ funcStops
    /\ colPc = "run"
    /\ colPc' = "done"
    /\ recvAlive' = FALSE
    /\ UNCHANGED <<frameVars, mainVars, deadThreads, inCh, senderAlive, outCh,
                   doneSendRefs, prodVars, wPc, wBatch, received, sawNone, taken,
                   worked, sentOrder>>

MainStep ==
    \/ MainAssert
    \/ MainSetup
    \/ MainSpawnProducer
    \/ MainSpawnWorker
    \/ MainDropDoneSend
    \/ MainSpawnCollector
    \/ MainJoinAll

\* The producer job of read_parallel.
ReadProducerStep ==
    \/ ProducerStart
    \/ ProducerRead
    \/ ProducerSend

\* The producer job of any of the three entry points.
ProducerStep ==
    \/ ReadProducerStep
    \/ BufProducerRead
    \/ MapProducerNext

WorkerStep(w) ==
    \/ WorkerStart(w)
    \/ WorkerRecv(w)
    \/ WorkerSend(w)

\* The collector job with a func that drains: while let Some(x) = result.next().
CollectorStep ==
    \/ CollectorStart
    \/ CollectorNext

\* read_parallel with a draining collector.
ReadInit ==
    /\ PipeInit
    /\ flavor = "read"
    /\ funcStops = FALSE
    /\ srcBatches = MaxBatches

ReadNext ==
    \/ MainStep
    \/ ReadProducerStep
    \/ \E w \in Workers : WorkerStep(w)
    \/ CollectorStep

\* Any of the three entry points with a draining collector, over a source of at
\* most MaxFairBatches batches.
AllInit ==
    /\ PipeInit
    /\ funcStops = FALSE
    /\ srcBatches = MaxFairBatches

AllNext ==
    \/ MainStep
    \/ ProducerStep
    \/ \E w \in Workers : WorkerStep(w)
    \/ CollectorStep

\* While one part of the crate runs, the others rest.
BufIdle ==
    /\ slot_size = 1 /\ buffer_size = 1 /\ srcLen = 0 /\ srcPos = 0
    /\ batch_buffer = << >> /\ bufPc = "done" /\ lastRead = -1
    /\ bufFailed = FALSE /\ bufSent = << >>

ScanIdle ==
    /\ iter = << >> /\ lastRet = << >> /\ emitted = << >> /\ emittedAt = << >>
    /\ noneCalls = 0

WinIdle ==
    /\ win = << >> /\ winCands = << >> /\ winEmits = << >> /\ winRet = << >>
    /\ winOp = "none" /\ winCalls = 0

CandIdle ==
    /\ candMeros = << >> /\ candLmer = 0 /\ candOut = << >>

PairIdle ==
    /\ pair = << >> /\ pairBefore = << >> /\ pairOp = "none" /\ pairArg = << >>
    /\ pairOut = << >>

BaseIdle ==
    /\ base = << >> /\ baseOp = "none" /\ baseItems = << >> /\ baseFold = << >>

CurIdle ==
    /\ cur = << >> /\ curCodes = << >> /\ curRet = << >> /\ curOp = "none"
    /\ curCalls = 0

DistIdle ==
    /\ dist = << >> /\ distBefore = << >> /\ distOp = "none" /\ distArg = << >>

\* The parts of the crate that rest in every specification of the pipeline, the
\* scanner, the window and the candidate function.
UtilIdle == PairIdle /\ BaseIdle /\ CurIdle /\ DistIdle

Init == ReadInit /\ BufIdle /\ ScanIdle /\ WinIdle /\ CandIdle /\ UtilIdle
Next == ReadNext

Spec == Init /\ [][Next]_vars

InitAll == AllInit /\ BufIdle /\ ScanIdle /\ WinIdle /\ CandIdle /\ UtilIdle

SpecAll == InitAll /\ [][AllNext]_vars

\* read_parallel with a collector closure that may return at any point.
InitEarly ==
    /\ PipeInit
    /\ flavor = "read"
    /\ funcStops = TRUE
    /\ srcBatches = MaxEarlyBatches
    /\ BufIdle
    /\ ScanIdle
    /\ WinIdle
    /\ CandIdle /\ UtilIdle

NextEarly ==
    \/ ReadNext
    \/ CollectorReturnEarly

SpecEarly == InitEarly /\ [][NextEarly]_vars

\* OS threads: while some thread can run, some thread runs. The source is
\* finite: with one worker it yields at most MaxBatches batches, enough to fill
\* the input channel and block the producer, with more workers MaxFairBatches.
FairInit ==
    /\ PipeInit
    /\ flavor = "read"
    /\ funcStops = FALSE
    /\ srcBatches = IF WorkerCount(n_threads) > 1 THEN MaxFairBatches ELSE MaxBatches
    /\ BufIdle
    /\ ScanIdle
    /\ WinIdle
    /\ CandIdle /\ UtilIdle

FairSpec == FairInit /\ [][Next]_vars /\ WF_vars(Next)

\* ------------------------------------------------- claims on the pipeline

\* The bag (multiset) of the elements of a sequence.
SeqToBag(s) ==
    [v \in {s[i] : i \in 1 .. Len(s)} |-> Cardinality({i \in 1 .. Len(s) : s[i] = v})]

\* The values the collector has received, and what work gives over all batches read.
ReceivedVals == [i \in 1 .. Len(received) |-> received[i].val]
ExpectedVals == [b \in 1 .. yielded |-> Work(b)]

\* How many results of batch b a sequence of results holds.
CountOf(s, b) == Cardinality({i \in 1 .. Len(s) : s[i].batch = b})
CountIn(ch, b) == Cardinality({i \in 1 .. Len(ch) : ch[i] = b})

\* Batches read from the source and not yet released by a worker.
Resident ==
    (IF prodBatch # 0 THEN 1 ELSE 0) + Len(inCh)
  + Cardinality({w \in Workers : wBatch[w] # 0})

\* C1: read_parallel with a collector that calls next until None: no batch is ever
\* taken by two workers or worked on twice; when next returns None no result is
\* pending and no worker is running, every batch read was taken by exactly one
\* worker and gave exactly one result, and the multiset of values received is
\* the multiset of work over all batches read.
C1_OutputMultiset ==
    /\ \A b \in Batches :
         taken[b] <= 1 /\ worked[b] <= 1 /\ CountOf(sentOrder, b) <= 1
    /\ sawNone =>
         /\ outCh = << >>
         /\ \A w \in Workers : wPc[w] \in {"none", "done"} /\ wBatch[w] = 0
         /\ Cardinality({w \in Workers : wPc[w] = "done"}) = n_threads - 2
         /\ \A b \in 1 .. yielded :
              taken[b] = 1 /\ worked[b] = 1 /\ CountOf(received, b) = 1
         /\ Len(received) = yielded
         /\ SeqToBag(ReceivedVals) = SeqToBag(ExpectedVals)

\* C1's case: two workers, every batch read, equal values among the results, and
\* the collector has seen None.
C1_Witness ==
    /\ sawNone
    /\ n_threads = 4
    /\ yielded = MaxBatches
    /\ \E i, j \in 1 .. Len(received) : i < j /\ received[i].val = received[j].val
    /\ \E i \in 1 .. Len(received) : received[i].batch # i

\* C2: under fair scheduling a started read_parallel (finite reader, draining
\* collector) returns, with the producer, every worker and the collector over.
C2_Terminates ==
    n_threads > 2 => <>(mainPc = "returned" /\ JobsOver /\ sawNone)

\* C2's case: a run over every batch with two workers has returned.
C2_Witness ==
    /\ mainPc = "returned"
    /\ n_threads = 4
    /\ Len(received) = srcBatches

\* C3: with n_threads = n each channel holds at most n + 2 items; at most one
\* producer, n - 2 workers and one collector exist, and exactly that many once
\* the caller waits in join_all; a send on a full channel blocks: every batch
\* read is in exactly one place and every result sent is pending or received.
C3_ChannelsAndRoles ==
    /\ Len(inCh) <= n_threads + 2
    /\ Len(outCh) <= n_threads + 2
    /\ Cardinality({w \in Workers : wPc[w] # "none"}) <= n_threads - 2 \/ n_threads <= 2
    /\ mainPc \in {"join_all", "returned"} =>
         /\ prodPc # "none"
         /\ colPc # "none"
         /\ Cardinality({w \in Workers : wPc[w] # "none"}) = n_threads - 2
    /\ \A b \in 1 .. yielded :
           (IF prodBatch = b THEN 1 ELSE 0) + CountIn(inCh, b)
         + Cardinality({w \in Workers : wBatch[w] = b}) + CountOf(sentOrder, b) = 1
    /\ Len(sentOrder) = Len(outCh) + Len(received)

\* C3's case: the input channel is full and the producer waits with a batch.
C3_Witness ==
    /\ n_threads = 3
    /\ Len(inCh) = n_threads + 2
    /\ prodPc = "send"

\* C4 as claimed: at most n_threads + 2 batches are resident.
C4_ResidentWithinCapacity == Resident <= n_threads + 2

\* C4 amended: besides the n_threads + 2 batches of the channel, the producer and
\* each worker may hold one: the resident batches are at most the channel capacity
\* plus the threads holding a batch, hence at most 2 * n_threads + 1.
C4_ResidentBound ==
    /\ Resident <= (n_threads + 2)
                   + (IF prodPc = "send" THEN 1 ELSE 0)
                   + Cardinality({w \in Workers : wPc[w] = "send"})
    /\ Resident <= (n_threads + 2) + 1 + (n_threads - 2) \/ n_threads <= 2

\* C4's case: more batches are resident than the channel can hold, with the
\* producer and a worker holding one each.
C4_Witness ==
    /\ Resident > n_threads + 2
    /\ prodPc = "send"
    /\ \E w \in Workers : wPc[w] = "send"

\* C5: results reach the collector in the order the workers' sends completed.
C5_ArrivalIsSendOrder == received \o outCh = sentOrder

\* C5's case: with two workers the result of a later batch was received before
\* the result of an earlier one.
C5_Witness ==
    /\ n_threads >= 4
    /\ \E i, j \in 1 .. Len(received) : i < j /\ received[i].batch > received[j].batch

\* C6: once reader.next has returned an error the producer is over (the failed
\* call was its last, it holds and sends nothing more), no worker is signalled
\* (none is stopped but by finding the channel empty and closed), and when the
\* collector sees None every batch read before the error was processed by
\* exactly one worker and its result received.
C6_ReaderFailure ==
    readerFailed =>
        /\ prodPc = "done" /\ prodBatch = 0 /\ ~senderAlive
        /\ readerCalls = yielded + 1
        /\ \A w \in Workers : wPc[w] # "panicked"
        /\ \A w \in Workers : wPc[w] = "done" => inCh = << >>
        /\ \A i \in 1 .. Len(inCh) : inCh[i] <= yielded
        /\ sawNone =>
             /\ \A w \in Workers : wPc[w] \in {"none", "done"}
             /\ \A b \in 1 .. yielded :
                  taken[b] = 1 /\ worked[b] = 1 /\ CountOf(received, b) = 1
        /\ mainPc = "returned" => sawNone

\* C6's case: the reader failed after some batches and the call has returned.
C6_Witness ==
    /\ readerFailed
    /\ yielded >= 2
    /\ mainPc = "returned"

C29_ReaderFailureHidden ==
    /\ mainPc # "failed"
    /\ mainPc = "returned" =>
         /\ sawNone
         /\ readerCalls = yielded + 1
         /\ Len(received) = yielded
         /\ SeqToBag(ReceivedVals) = SeqToBag(ExpectedVals)

\* C29's case: reader.next failed on its second call and the call has returned.
C29_Witness ==
    /\ readerFailed
    /\ yielded = 1
    /\ mainPc = "returned"
    /\ Len(received) = 1

\* C30: with n_threads = 3 (one worker) the collector receives the results in the
\* order the producer read the batches.
C30_SingleWorkerOrder ==
    n_threads = 3 =>
        /\ \A i \in 1 .. Len(received) : received[i].batch = i
        /\ \A i \in 1 .. Len(sentOrder) : sentOrder[i].batch = i

\* C30's case: one worker, every batch read and received, the result channel
\* having held several results at once.
C30_Witness ==
    /\ n_threads = 3
    /\ Len(received) = MaxBatches
    /\ mainPc = "returned"

\* C7: each of the three entry points aborts when n_threads <= 2, and an aborted
\* call has created no channel, no pool and no job, has not touched the source
\* and has invoked neither work nor the collector.
C7_AssertBeforeAnything ==
    /\ n_threads <= 2 => mainPc \in {"entry", "aborted"}
    /\ mainPc = "aborted" => n_threads <= 2
    /\ mainPc \in {"entry", "aborted"} =>
         /\ buffer_len = 0 /\ poolSize = 0
         /\ ~senderAlive /\ ~recvAlive /\ doneSendRefs = 0
         /\ prodPc = "none" /\ colPc = "none"
         /\ \A w \in Workers : wPc[w] = "none"
         /\ readerCalls = 0 /\ yielded = 0
         /\ \A b \in Batches : worked[b] = 0
         /\ received = << >> /\ ~sawNone

\* C7's case: a call with n_threads = 2 has aborted.
C7_Witness ==
    /\ mainPc = "aborted"
    /\ n_threads = 2
    /\ flavor = "buffer_map"


\* ======================================================================
\* buffer_read_parallel's producer, byte by byte (parallel.rs:226-246)
\* ======================================================================

\* The pipeline rests while another part of the crate is examined.
PipeIdle(f) ==
    /\ PipeInit
    /\ flavor = f
    /\ n_threads = 3
    /\ funcStops = FALSE
    /\ srcBatches = MaxBatches

\* The source: byte i of it has value i, so that every byte is told apart.
SourceBytes(n) == [i \in 1 .. n |-> i]

Min(a, b) == IF a < b THEN a ELSE b

\* parallel.rs:231: vec![0u8; slot_size * buffer_size].
NewBatchBuffer(slot, size) == [i \in 1 .. (slot * size) |-> 0]

\* std::io::Read::read(&mut buf): what Ok(n) can carry. Ok(0) says end of source
\* (or an empty buf); otherwise any 1 <= n <= buf.len() that the source still has.
ReadSizes(buf, pos, len) ==
    IF Len(buf) = 0 \/ pos >= len THEN {0} ELSE 1 .. Min(Len(buf), len - pos)

\* read fills the front of buf with the next n bytes of the source.
FillBuffer(buf, pos, n) ==
    [i \in 1 .. Len(buf) |-> IF i <= n THEN SourceBytes(pos + n)[pos + i] ELSE buf[i]]

\* parallel.rs:238: let slots_in_batch = bytes_read / slot_size.
SlotsInBatch(bytes_read, slot) == bytes_read \div slot

\* parallel.rs:239-241: from_raw_parts(batch_buffer.as_ptr() as *const D, n): the
\* first n records of the buffer, a record being slot bytes.
Slots(buf, slot, n) == [j \in 1 .. n |-> SubSeq(buf, (j - 1) * slot + 1, j * slot)]

BufInit ==
    /\ slot_size \in 1 .. MaxSlot
    /\ buffer_size \in 1 .. MaxBufSize
    /\ srcLen \in 0 .. MaxSrcLen
    /\ srcPos = 0
    /\ batch_buffer = NewBatchBuffer(slot_size, buffer_size)
    /\ bufPc = "read"
    /\ lastRead = -1
    /\ bufFailed = FALSE
    /\ bufSent = << >>

\* parallel.rs:233-245: one turn of the loop on Ok(bytes_read): break on zero,
\* else frame the records and send them as one batch.
BufReadOk ==
    /\ bufPc = "read"
    /\ \E bytes_read \in ReadSizes(batch_buffer, srcPos, srcLen) :
         /\ lastRead' = bytes_read
         /\ srcPos' = srcPos + bytes_read
         /\ batch_buffer' = FillBuffer(batch_buffer, srcPos, bytes_read)
         /\ IF bytes_read = 0
              THEN /\ bufPc' = "done"
                   /\ UNCHANGED bufSent
              ELSE /\ bufSent' = Append(bufSent,
                                     Slots(batch_buffer', slot_size,
                                           SlotsInBatch(bytes_read, slot_size)))
                   /\ UNCHANGED bufPc
    /\ UNCHANGED <<slot_size, buffer_size, srcLen, bufFailed, pipeVars, scanVars, winVars,
                   candVars, pairVars, baseVars, curVars, distVars>>

\* parallel.rs:233: while let Ok(..) = reader.read(..): on Err the loop ends.
BufReadErr ==
    /\ bufPc = "read"
    /\ bufPc' = "done"
    /\ lastRead' = -1
    /\ bufFailed' = TRUE
    /\ UNCHANGED <<slot_size, buffer_size, srcLen, srcPos, batch_buffer, bufSent,
                   pipeVars, scanVars, winVars, candVars, pairVars, baseVars, curVars, distVars>>

InitBuf ==
    PipeIdle("buffer_read") /\ BufInit /\ ScanIdle /\ WinIdle /\ CandIdle /\ UtilIdle

BufNext ==
    \/ BufReadOk
    \/ BufReadErr

SpecBuf == InitBuf /\ [][BufNext]_vars

RECURSIVE Flatten(_)
Flatten(ss) == IF ss = << >> THEN << >> ELSE Head(ss) \o Flatten(Tail(ss))

\* The records the source holds: its first floor(N / sizeof(D)) records.
SourceRecords == Slots(SourceBytes(srcLen), slot_size, srcLen \div slot_size)

\* C8 (as stated): however the source splits its bytes across reads, once the
\* producer has ended on a zero read the records it sent, concatenated in sending
\* order, are the first floor(N / sizeof(D)) records of the source; no batch holds
\* more than buffer_size records; a zero read ends production.
C8_Framing ==
    /\ (bufPc = "done" /\ ~bufFailed) => Flatten(bufSent) = SourceRecords
    /\ \A i \in 1 .. Len(bufSent) : Len(bufSent[i]) <= buffer_size
    /\ lastRead = 0 => bufPc = "done"


\* ======================================================================
\* The minimizer scanner (mmscanner.rs)
\* ======================================================================

\* Option<T>: << >> is None, <<x>> is Some(x).
None == << >>
Some(x) == <<x>>

RECURSIVE Pow2(_)
Pow2(n) == IF n = 0 THEN 1 ELSE 2 * Pow2(n - 1)

\* u64 &, | and ^, bit by bit.
RECURSIVE BitAnd(_, _)
BitAnd(a, b) ==
    IF a = 0 \/ b = 0 THEN 0
    ELSE (a % 2) * (b % 2) + 2 * BitAnd(a \div 2, b \div 2)

RECURSIVE BitOr(_, _)
BitOr(a, b) ==
    IF a = 0 THEN b ELSE IF b = 0 THEN a
    ELSE (IF a % 2 = 1 \/ b % 2 = 1 THEN 1 ELSE 0) + 2 * BitOr(a \div 2, b \div 2)

RECURSIVE BitXor(_, _)
BitXor(a, b) ==
    IF a = 0 THEN b ELSE IF b = 0 THEN a
    ELSE ((a + b) % 2) + 2 * BitXor(a \div 2, b \div 2)

\* ---- crate::feat, as the specification describes it

\* Bits of one base in a packed l-mer.
BITS_PER_CHAR == 2

\* char_to_value: A, C, G, T in either case to 0, 1, 2, 3; any other byte to None.
CharToValue(ch) ==
    IF ch \in {65, 97} THEN Some(0)
    ELSE IF ch \in {67, 99} THEN Some(1)
    ELSE IF ch \in {71, 103} THEN Some(2)
    ELSE IF ch \in {84, 116} THEN Some(3)
    ELSE None

\* The reverse complement of an l-mer of n bases: every bit pair flipped, the
\* pairs in reverse order.
RECURSIVE ReverseComplement(_, _)
ReverseComplement(lmer, n) ==
    IF n = 0 THEN 0
    ELSE (3 - (lmer % 4)) * Pow2(BITS_PER_CHAR * (n - 1))
         + ReverseComplement(lmer \div 4, n - 1)

\* canonical_representation: min(lmer, reverse_complement(lmer, l)).
CanonicalRepresentation(lmer, l) == Min(lmer, ReverseComplement(lmer, l))

\* Width of the finalizer below: MurmurHash3's fmix64 (xor-shift by half the
\* width, multiply by an odd constant, twice, xor-shift), cut to 12 bits with
\* the low 12 bits of its two multipliers. Like fmix64 it is a bijection.
HashMod == Pow2(12)

XorShift(h) == BitXor(h, h \div 64)

Fmix64(key) ==
    LET h1 == XorShift(key % HashMod)
        h2 == XorShift((h1 * 3277) % HashMod)
    IN  XorShift((h2 * 3155) % HashMod)

\* Meros::new: the scanning parameters; mask = (1 << (2 * l_mer)) - 1.
MerosNew(k, l, spaced, toggle) ==
    [k_mer |-> k, l_mer |-> l, spaced_seed_mask |-> spaced, toggle_mask |-> toggle,
     mask |-> Pow2(BITS_PER_CHAR * l) - 1]

\* Meros::window_size: k_mer - l_mer + 1.
WindowSize(meros) == meros.k_mer - meros.l_mer + 1

\* ---- mmscanner.rs

\* (mutant) the toggle is applied before the spaced seed mask.
ToCandidateLmerToggleFirst(meros, lmer) ==
    LET toggled == BitXor(CanonicalRepresentation(lmer, meros.l_mer), meros.toggle_mask)
    IN  IF meros.spaced_seed_mask > 0
          THEN BitAnd(toggled, meros.spaced_seed_mask)
          ELSE toggled

\* (mutant) the l-mer is taken as it is, not canonicalized.
ToCandidateLmerAsIs(meros, lmer) ==
    BitXor(IF meros.spaced_seed_mask > 0
             THEN BitAnd(lmer, meros.spaced_seed_mask)
             ELSE lmer,
           meros.toggle_mask)

\* mmscanner.rs:11-17.
ToCandidateLmer(meros, lmer) ==
    LET canonical_lmer == CanonicalRepresentation(lmer, meros.l_mer)
        masked == IF meros.spaced_seed_mask > 0
                    THEN BitAnd(canonical_lmer, meros.spaced_seed_mask)
                    ELSE canonical_lmer
    IN  BitXor(masked, meros.toggle_mask)

\* MinimizerData::new.
MinimizerDataNew(candidate_lmer, pos) == [pos |-> pos, candidate_lmer |-> candidate_lmer]

\* mmscanner.rs:82-89: MinimizerWindow::new.
MinimizerWindowNew(capacity) ==
    [queue |-> << >>, queue_pos |-> 0, capacity |-> capacity, count |-> 0]

\* (mutant) the back is evicted on >= : an equal entry leaves too.
RECURSIVE PopBackOrEqual(_, _)
PopBackOrEqual(queue, candidate_lmer) ==
    IF queue # << >> /\ queue[Len(queue)].candidate_lmer >= candidate_lmer
      THEN PopBackOrEqual(SubSeq(queue, 1, Len(queue) - 1), candidate_lmer)
      ELSE queue

\* mmscanner.rs:103-109: entries larger than the candidate leave from the back.
RECURSIVE PopBack(_, _)
PopBack(queue, candidate_lmer) ==
    IF queue # << >> /\ queue[Len(queue)].candidate_lmer > candidate_lmer
      THEN PopBack(SubSeq(queue, 1, Len(queue) - 1), candidate_lmer)
      ELSE queue

\* mmscanner.rs:118-125: entries that left the window leave from the front.
RECURSIVE PopFront(_, _, _)
PopFront(queue, count, capacity) ==
    IF queue # << >> /\ count >= capacity /\ Head(queue).pos < count - capacity
      THEN PopFront(Tail(queue), count, capacity)
      ELSE queue

\* (mutant) an empty queue reports a change whatever the count.
ChangedOnEmpty(queueEmpty, count, capacity) == queueEmpty \/ count = capacity

\* mmscanner.rs:112: the condition that sets changed before the push.
Changed(queueEmpty, count, capacity) ==
    (queueEmpty /\ count >= capacity) \/ count = capacity

\* (mutant) no fast path: a window of one goes through the deque as any other.
WindowNextNoFastPath(w, candidate_lmer) ==
    LET data == MinimizerDataNew(candidate_lmer, w.count)
        q1 == PopBack(w.queue, candidate_lmer)
        q2 == Append(q1, data)
        q3 == PopFront(q2, w.count, w.capacity)
        changed == Changed(q1 = << >>, w.count, w.capacity) \/ Len(q3) < Len(q2)
    IN  [window |-> [w EXCEPT !.queue = q3, !.count = w.count + 1],
         ret |-> IF changed /\ q3 # << >>
                   THEN Some(Head(q3).candidate_lmer)
                   ELSE None]

\* mmscanner.rs:93-133: MinimizerWindow::next.
WindowNext(w, candidate_lmer) ==
    IF w.capacity = 1
      THEN [window |-> w, ret |-> Some(candidate_lmer)]
      ELSE LET data == MinimizerDataNew(candidate_lmer, w.count)
               q1 == PopBack(w.queue, candidate_lmer)
               q2 == Append(q1, data)
               q3 == PopFront(q2, w.count, w.capacity)
               changed == Changed(q1 = << >>, w.count, w.capacity) \/ Len(q3) < Len(q2)
           IN  [window |-> [w EXCEPT !.queue = q3, !.count = w.count + 1],
                ret |-> IF changed /\ q3 # << >>
                          THEN Some(Head(q3).candidate_lmer)
                          ELSE None]

\* (mutant) clear resets the counters and leaves the queue.
WindowClearCounters(w) == [w EXCEPT !.count = 0, !.queue_pos = 0]

\* mmscanner.rs:136-140.
WindowClear(w) == [w EXCEPT !.count = 0, !.queue_pos = 0, !.queue = << >>]

\* mmscanner.rs:163-170: Cursor::new.
CursorNew(meros) == [pos |-> 0, value |-> 0, capacity |-> meros.l_mer, mask |-> meros.mask]

\* mmscanner.rs:173-182: Cursor::next_lmer.
CursorNextLmer(c, item) ==
    LET value == BitAnd(BitOr(c.value * Pow2(BITS_PER_CHAR), item), c.mask)
        c1 == [c EXCEPT !.value = value, !.pos = c.pos + 1]
    IN  [cursor |-> c1, ret |-> IF c1.pos >= c1.capacity THEN Some(value) ELSE None]

\* (mutant) clear forgets the value and keeps the position.
CursorClearValueOnly(c) == [c EXCEPT !.value = 0]

\* mmscanner.rs:186-189.
CursorClear(c) == [c EXCEPT !.pos = 0, !.value = 0]

\* mmscanner.rs:221-231: MinimizerIterator::new.
MinimizerIteratorNew(seq, cursor, window, meros) ==
    [cursor |-> cursor, window |-> window, seq |-> seq, meros |-> meros,
     pos |-> 0, size |-> 0, end |-> Len(seq)]

\* (mutant) clear_state forgets the window.
ClearStateCursorOnly(it) == [it EXCEPT !.cursor = CursorClear(it.cursor)]

\* mmscanner.rs:234-237.
ClearState(it) ==
    [it EXCEPT !.cursor = CursorClear(it.cursor), !.window = WindowClear(it.window)]

\* mmscanner.rs:256-262: a valid code goes through the cursor, the l-mer it may
\* yield through to_candidate_lmer and the window, the minimizer through the hash.
Feed(it, code) ==
    LET cr == CursorNextLmer(it.cursor, code)
        it1 == [it EXCEPT !.cursor = cr.cursor]
    IN  IF cr.ret = None
          THEN [it |-> it1, ret |-> None]
          ELSE LET wr == WindowNext(it.window, ToCandidateLmer(it.meros, cr.ret[1]))
               IN  [it |-> [it1 EXCEPT !.window = wr.window],
                    ret |-> IF wr.ret = None
                              THEN None
                              ELSE Some(Fmix64(BitXor(wr.ret[1], it.meros.toggle_mask)))]

\* (mutant) the ordinal is taken before size is incremented.
EmitBeforeIncrement(it, data) ==
    [it |-> [it EXCEPT !.size = it.size + 1], ret |-> Some(<<it.size, data>>)]

\* mmscanner.rs:268-271: self.size += 1; return Some((self.size, data.unwrap())).
Emit(it, data) ==
    [it |-> [it EXCEPT !.size = it.size + 1], ret |-> Some(<<it.size + 1, data>>)]

\* (mutant) only the line feed is skipped: a carriage return goes to
\* char_to_value as any other byte.
RECURSIVE IterNextNoCR(_)
IterNextNoCR(it) ==
    IF ~(it.pos < it.end)
      THEN [it |-> it, ret |-> None]
      ELSE LET ch == it.seq[it.pos + 1]
               it1 == [it EXCEPT !.pos = it.pos + 1]
           IN  IF ch = 10
                 THEN IterNextNoCR(it1)
                 ELSE LET code == CharToValue(ch)
                          fed == IF code = None
                                   THEN [it |-> ClearState(it1), ret |-> None]
                                   ELSE Feed(it1, code[1])
                      IN  IF fed.ret # None
                            THEN Emit(fed.it, fed.ret[1])
                            ELSE IterNextNoCR(fed.it)

\* mmscanner.rs:247-273: MinimizerIterator::next.
RECURSIVE IterNext(_)
IterNext(it) ==
    IF ~(it.pos < it.end)
      THEN [it |-> it, ret |-> None]
      ELSE LET ch == it.seq[it.pos + 1]
               it1 == [it EXCEPT !.pos = it.pos + 1]
           IN  IF ch = 10 \/ ch = 13
                 THEN IterNext(it1)
                 ELSE LET code == CharToValue(ch)
                          fed == IF code = None
                                   THEN [it |-> ClearState(it1), ret |-> None]
                                   ELSE Feed(it1, code[1])
                      IN  IF fed.ret # None
                            THEN Emit(fed.it, fed.ret[1])
                            ELSE IterNext(fed.it)

\* The bytes a scanned sequence is made of: A, C, G, T, N and a line feed.
Alphabet == {65, 67, 71, 84, 78, 10}

Seqs == UNION {[1 .. n -> Alphabet] : n \in 0 .. MaxSeqLen}

\* The configurations scanned with: k_mer = l_mer (a window of one), windows of
\* two and three, a toggle mask, a spaced seed mask with a toggle mask.
MerosSet ==
    {MerosNew(1, 1, 0, 0), MerosNew(2, 1, 0, 1), MerosNew(3, 1, 0, 0),
     MerosNew(2, 2, 0, 13), MerosNew(3, 2, 12, 5)}

\* mmscanner.rs:351-355: scan_sequence builds the iterator of one sequence.
ScanInit ==
    /\ \E seq \in Seqs, meros \in MerosSet :
         iter = MinimizerIteratorNew(seq, CursorNew(meros),
                                     MinimizerWindowNew(WindowSize(meros)), meros)
    /\ lastRet = None
    /\ emitted = << >>
    /\ emittedAt = << >>
    /\ noneCalls = 0

\* One call of next by the iterator's user.
ScanNext ==
    /\ noneCalls < MaxNoneCalls
    /\ \E r \in {IterNext(iter)} :
         /\ iter' = r.it
         /\ lastRet' = r.ret
         /\ emitted' = IF r.ret = None THEN emitted ELSE Append(emitted, r.ret[1])
         /\ emittedAt' = IF r.ret = None THEN emittedAt ELSE Append(emittedAt, r.it.pos)
         /\ noneCalls' = IF r.ret = None THEN noneCalls + 1 ELSE noneCalls
    /\ UNCHANGED <<pipeVars, bufVars, winVars, candVars, pairVars, baseVars, curVars, distVars>>

InitScan == PipeIdle("read") /\ BufIdle /\ ScanInit /\ WinIdle /\ CandIdle /\ UtilIdle

SpecScan == InitScan /\ [][ScanNext]_vars

OnlyACGT(seq) == \A i \in 1 .. Len(seq) : seq[i] \in {65, 67, 71, 84}

Max(a, b) == IF a > b THEN a ELSE b

\* C9: every item (ord, hash) that next returns carries as ord the 1-based number
\* of items returned so far, and after every call, a call returning None
\* included, the size field is the number of items returned so far.
C9_Ordinals ==
    /\ \A i \in 1 .. Len(emitted) : emitted[i][1] = i
    /\ iter.size = Len(emitted)
    /\ lastRet # None => lastRet[1] = emitted[Len(emitted)]

C9_Witness ==
    /\ Len(emitted) >= 3
    /\ noneCalls >= 1
    /\ iter.size = 3

\* C10: over a sequence of L bytes that are all A, C, G or T the iterator emits
\* at most L - k_mer + 1 items, and with L < k_mer it emits none: every call
\* returns None.
C10_EmissionBound ==
    OnlyACGT(iter.seq) =>
        /\ Len(emitted) <= Max(0, iter.end - iter.meros.k_mer + 1)
        /\ iter.end < iter.meros.k_mer => (emitted = << >> /\ lastRet = None)

C10_Witness ==
    /\ OnlyACGT(iter.seq)
    /\ noneCalls >= 1
    /\ Len(emitted) >= 2
    /\ Len(emitted) = iter.end - iter.meros.k_mer + 1


\* ---- what a whole scan emits

\* scan_sequence over seq, then next until None: the hashes returned, in order.
RECURSIVE Drain(_, _)
Drain(it, acc) ==
    LET r == CHOOSE x \in {IterNext(it)} : TRUE
    IN  IF r.ret = None THEN acc ELSE Drain(r.it, Append(acc, r.ret[1][2]))

HashesOf(seq, meros) ==
    Drain(MinimizerIteratorNew(seq, CursorNew(meros),
                               MinimizerWindowNew(WindowSize(meros)), meros), << >>)

\* The hashes of the items returned so far.
EmittedHashes == [i \in 1 .. Len(emitted) |-> emitted[i][2]]

IsBase(ch) == ch \in {65, 67, 71, 84}

\* The maximal runs of A/C/G/T bytes of seq, as <<first, last>> positions.
BaseRuns(seq) ==
    {<<a, b>> \in (1 .. Len(seq)) \X (1 .. Len(seq)) :
        /\ a <= b
        /\ \A i \in a .. b : IsBase(seq[i])
        /\ a = 1 \/ ~IsBase(seq[a - 1])
        /\ b = Len(seq) \/ ~IsBase(seq[b + 1])}

\* C11 (as stated): in every maximal run of A/C/G/T bases of length >= k_mer the
\* run's first minimizer is emitted exactly when the run's k_mer-th base is
\* consumed: once the iterator is past that base, an item was returned there and
\* none at an earlier base of the run.
C11_FirstEmissionAtKthBase ==
    \A run \in BaseRuns(iter.seq) :
        LET kth == run[1] + iter.meros.k_mer - 1
        IN  (kth <= run[2] /\ iter.pos >= kth) =>
                /\ \E i \in 1 .. Len(emittedAt) : emittedAt[i] = kth
                /\ \A i \in 1 .. Len(emittedAt) : ~(run[1] <= emittedAt[i] /\ emittedAt[i] < kth)

\* C12: a byte that is neither a base nor a line break partitions the scan: the
\* hashes of X b Y are those of X followed by those of Y, the ordinals count on,
\* and a scan that ends on such a byte leaves the cursor and the window as
\* constructed.
C12_AmbiguousBasePartition ==
    noneCalls = 1 =>
        /\ \A i \in 1 .. Len(iter.seq) :
             iter.seq[i] = 78 =>
                EmittedHashes = HashesOf(SubSeq(iter.seq, 1, i - 1), iter.meros)
                                \o HashesOf(SubSeq(iter.seq, i + 1, Len(iter.seq)), iter.meros)
        /\ \A j \in 1 .. Len(emitted) : emitted[j][1] = j
        /\ (iter.end > 0 /\ iter.seq[iter.end] = 78) =>
                /\ iter.cursor = CursorNew(iter.meros)
                /\ iter.window = MinimizerWindowNew(WindowSize(iter.meros))

\* C12's case: an ambiguous byte between two stretches that each emit.
C12_Witness ==
    /\ noneCalls >= 1
    /\ \E i \in 2 .. Len(iter.seq) - 1 :
         /\ iter.seq[i] = 78
         /\ HashesOf(SubSeq(iter.seq, 1, i - 1), iter.meros) # << >>
         /\ HashesOf(SubSeq(iter.seq, i + 1, Len(iter.seq)), iter.meros) # << >>
         /\ iter.meros.k_mer > 1

\* The complementary base: A <-> T, C <-> G.
ComplementBase(ch) ==
    IF ch = 65 THEN 84 ELSE IF ch = 84 THEN 65 ELSE IF ch = 67 THEN 71 ELSE 67

\* The reverse complement of a sequence of bases.
RevCompSeq(seq) == [i \in 1 .. Len(seq) |-> ComplementBase(seq[Len(seq) + 1 - i])]

\* C13 (as stated): the scan of a sequence of bases and the scan of its reverse
\* complement emit the same hashes with the same multiplicities.
C13_StrandSymmetry ==
    (noneCalls = 1 /\ OnlyACGT(iter.seq)) =>
        SeqToBag(EmittedHashes) = SeqToBag(HashesOf(RevCompSeq(iter.seq), iter.meros))

\* ======================================================================
\* A MinimizerWindow driven call by call (mmscanner.rs:71-141)
\* ======================================================================

\* mmscanner.rs:82-89: MinimizerWindow::new(capacity).
WinInit ==
    /\ \E capacity \in 1 .. MaxCap : win = MinimizerWindowNew(capacity)
    /\ winCands = << >>
    /\ winEmits = << >>
    /\ winRet = None
    /\ winOp = "new"
    /\ winCalls = 0

\* mmscanner.rs:93-133: one call of next.
WinNextCall ==
    /\ winCalls < MaxWinCalls
    /\ \E candidate_lmer \in 0 .. MaxCand :
         \E r \in {WindowNext(win, candidate_lmer)} :
            /\ win' = r.window
            /\ winRet' = r.ret
            /\ winCands' = Append(winCands, candidate_lmer)
            /\ winEmits' = IF r.ret = None THEN winEmits ELSE Append(winEmits, r.ret[1])
    /\ winOp' = "next"
    /\ winCalls' = winCalls + 1
    /\ UNCHANGED <<pipeVars, bufVars, scanVars, candVars, pairVars, baseVars, curVars, distVars>>

\* mmscanner.rs:136-140: one call of clear.
WinClearCall ==
    /\ win' = WindowClear(win)
    /\ winRet' = None
    /\ winCands' = << >>
    /\ winEmits' = << >>
    /\ winOp' = "clear"
    /\ UNCHANGED <<winCalls, pipeVars, bufVars, scanVars, candVars, pairVars, baseVars,
                   curVars, distVars>>

InitWin == PipeIdle("read") /\ BufIdle /\ ScanIdle /\ WinInit /\ CandIdle /\ UtilIdle

WinNext ==
    \/ WinNextCall
    \/ WinClearCall

SpecWin == InitWin /\ [][WinNext]_vars

\* The smallest element of a non-empty sequence of numbers.
MinOf(seq) == CHOOSE m \in {seq[i] : i \in 1 .. Len(seq)} :
                 \A i \in 1 .. Len(seq) : m <= seq[i]

\* The last n elements of a sequence (all of it when it is shorter).
LastN(seq, n) == SubSeq(seq, Max(1, Len(seq) - n + 1), Len(seq))

\* C14 (as stated): a window of capacity > 1 returns a value only when the
\* minimum changes: between two clears no two consecutive returned values are
\* the same.
C14_NoRepeatedMinimizer ==
    win.capacity > 1 =>
        \A i \in 1 .. Len(winEmits) - 1 : winEmits[i] # winEmits[i + 1]

\* C15 (as stated): when next of a window of capacity c > 1 returns Some(m), m
\* is the minimum of the c most recent candidates passed since the last clear.
C15_MinOfLastCapacity ==
    (win.capacity > 1 /\ winOp = "next" /\ winRet # None) =>
        /\ Len(winCands) >= win.capacity
        /\ winRet[1] = MinOf(LastN(winCands, win.capacity))

\* C16 (as stated): after every call of next or clear every entry of the deque
\* has count - capacity <= pos < count.
C16_PosWithinWindow ==
    \A i \in 1 .. Len(win.queue) :
        /\ win.count - win.capacity <= win.queue[i].pos
        /\ win.queue[i].pos < win.count

\* The positions the deque holds.
QueuePositions == {win.queue[i].pos : i \in 1 .. Len(win.queue)}

C18_EmptyIffNoCall ==
    (win.queue = << >>) <=> (winCands = << >>)

\* C18 (amended): that holds for every capacity > 1; a window of capacity 1
\* never stores an entry, its deque is always empty.
C18_EmptyIffNoCallAboveOne ==
    /\ win.capacity > 1 => ((win.queue = << >>) <=> (winCands = << >>))
    /\ win.capacity = 1 => win.queue = << >>

\* C18's case: a window of capacity > 1 cleared after calls of next.
C18_Witness ==
    /\ win.capacity > 1
    /\ winOp = "clear"
    /\ winCalls >= 2
    /\ win.queue = << >>

\* ---- the candidate and the emitted hash, from the bits

\* Bit i of x, and the u64 AND and XOR written bit by bit over the 2 * l_mer
\* bits of an l-mer.
Bit(x, i) == (x \div Pow2(i)) % 2

RECURSIVE SumBits(_, _)
SumBits(f, n) == IF n = 0 THEN 0 ELSE f[n - 1] * Pow2(n - 1) + SumBits(f, n - 1)

AndBits(a, b, n) == SumBits([i \in 0 .. n - 1 |-> Bit(a, i) * Bit(b, i)], n)

XorBits(a, b, n) == SumBits([i \in 0 .. n - 1 |-> (Bit(a, i) + Bit(b, i)) % 2], n)

\* canonical(x) AND spaced_seed_mask when the mask is set, canonical(x) otherwise.
MaskedCanonical(meros, x) ==
    LET canonical == Min(x, ReverseComplement(x, meros.l_mer))
    IN  IF meros.spaced_seed_mask = 0
          THEN canonical
          ELSE AndBits(canonical, meros.spaced_seed_mask, BITS_PER_CHAR * meros.l_mer)

\* The l-mer of l bases that starts at byte p of a sequence of bases.
RECURSIVE LmerAt(_, _, _)
LmerAt(seq, p, l) ==
    IF l = 0 THEN 0
    ELSE 4 * LmerAt(seq, p, l - 1) + CharToValue(seq[p + l - 1])[1]

\* C19: to_candidate_lmer gives canonical(x) XOR toggle_mask without a spaced
\* seed mask and (canonical(x) AND spaced_seed_mask) XOR toggle_mask with one,
\* for every l-mer x; and every hash the iterator returns is fmix64 of the
\* un-toggled masked canonical form of an l-mer already consumed.
C19_CandidateAndHash ==
    /\ iter.end = 0 =>
         \A x \in 0 .. iter.meros.mask :
            ToCandidateLmer(iter.meros, x)
              = XorBits(MaskedCanonical(iter.meros, x), iter.meros.toggle_mask,
                        BITS_PER_CHAR * iter.meros.l_mer)
    /\ (OnlyACGT(iter.seq) /\ lastRet # None) =>
         \E p \in 1 .. iter.pos - iter.meros.l_mer + 1 :
            lastRet[1][2] = Fmix64(MaskedCanonical(iter.meros,
                                                   LmerAt(iter.seq, p, iter.meros.l_mer)))

\* C19's case: an item returned under a spaced seed mask and a toggle mask.
C19_Witness ==
    /\ OnlyACGT(iter.seq)
    /\ lastRet # None
    /\ iter.meros.spaced_seed_mask > 0
    /\ iter.meros.toggle_mask > 0

\* ======================================================================
\* to_candidate_lmer applied to one l-mer (mmscanner.rs:11-31)
\* ======================================================================

\* mmscanner.rs:26: the l-mer of the test, 0b11001100110011001100.
S1Lmer == 838860

\* mmscanner.rs:30: the candidate the test expects, 0b11110.
S1Expected == 30

\* Scenario S1's configuration: l_mer = 11, k_mer = 14, no toggle, no mask.
S1Meros == MerosNew(14, 11, 0, 0)

\* mmscanner.rs:25: Meros::new(11, 3, Some(0), None, None): k_mer = 11,
\* l_mer = 3, no spaced seed mask, and the default toggle mask (Kraken 2's
\* 0xe37e28c4271b5a2d), of which l_mer = 3 keeps the low six bits 0b101101.
TestMeros == MerosNew(11, 3, 0, 45)

\* The l-mers tried: every value up to MaxLmer, and the test's.
CandLmers == (0 .. MaxLmer) \cup {S1Lmer}

CandInit ==
    /\ candMeros \in MerosSet \cup {S1Meros, TestMeros}
    /\ candLmer \in CandLmers
    /\ candOut = None

\* mmscanner.rs:27: let candidate = to_candidate_lmer(&meros, lmer).
CandCall ==
    /\ candOut = None
    /\ candOut' = Some(ToCandidateLmer(candMeros, candLmer))
    /\ UNCHANGED <<candMeros, candLmer, pipeVars, bufVars, scanVars, winVars, pairVars,
                   baseVars, curVars, distVars>>

InitCand == PipeIdle("read") /\ BufIdle /\ ScanIdle /\ WinIdle /\ CandInit /\ UtilIdle

SpecCand == InitCand /\ [][CandCall]_vars

\* C20 (as stated): with l_mer = 11, k_mer = 14, no toggle and no mask,
\* to_candidate_lmer of 0b11001100110011001100 is 0b11110.
C20_ScenarioS1 ==
    (candMeros = S1Meros /\ candLmer = S1Lmer /\ candOut # None) =>
        candOut = Some(S1Expected)

\* C20 (amended): with that configuration the l-mer comes back unchanged (it is
\* smaller than its reverse complement); 0b11110 is the candidate under the
\* configuration of the repository's test.
C20_ScenarioS1Amended ==
    candLmer = S1Lmer /\ candOut # None =>
        /\ candMeros = S1Meros => candOut = Some(S1Lmer)
        /\ candMeros = TestMeros => candOut = Some(S1Expected)

C20_Witness ==
    /\ candMeros = S1Meros
    /\ candLmer = S1Lmer
    /\ candOut = Some(S1Lmer)


\* ======================================================================
\* OptionPair (utils.rs)
\* ======================================================================

\* utils.rs:2-5: the two shapes.
Single(t) == [shape |-> "Single", t1 |-> t]
Pair(t1, t2) == [shape |-> "Pair", t1 |-> t1, t2 |-> t2]

\* Result<U, E>.
Ok(u) == [ok |-> TRUE, val |-> u]
Err(e) == [ok |-> FALSE, err |-> e]

\* utils.rs:21-26.
OptionPairSingle(self) == IF self.shape = "Single" THEN Some(self.t1) ELSE None

\* The elements: short strings, the empty one included.
Elems == {"", "a", "b"}

\* utils.rs:178-206: from_slice of one or two elements, From<(T, Option<T>)>.
PairValues == {Single(t) : t \in Elems} \cup {Pair(t1, t2) : t1, t2 \in Elems}

\* usize::to_string: the decimal digits, most significant first.
DigitStr == <<"0", "1", "2", "3", "4", "5", "6", "7", "8", "9">>
RECURSIVE UsizeToString(_)
UsizeToString(n) ==
    IF n < 10
      THEN DigitStr[n + 1]
      ELSE UsizeToString(n \div 10) \o DigitStr[(n % 10) + 1]

\* The closures passed to apply and reduce_str (Fn(&T) -> String) on strings, and
\* the closure of fmt_size on iterators (mmscanner.rs:290: m_iter.size.to_string()).
ApplyFns == {"id", "twice", "bang", "blank_b"}
ApplyFn(name, t) ==
    CASE name = "size" -> UsizeToString(t.size)
      [] name = "id" -> t
      [] name = "twice" -> t \o t
      [] name = "bang" -> t \o "!"
      [] name = "blank_b" -> IF t = "b" THEN "" ELSE t

\* The closures passed to map (Fn(&T) -> Result<String, String>).
MapFns == {"ok_twice", "err_on_b", "err_on_empty", "ok_on_a"}
MapFn(name, t) ==
    CASE name = "ok_twice" -> Ok(t \o t)
      [] name = "ok_on_a" -> IF t = "a" THEN Ok("A") ELSE Err("is " \o t \o ".")
      [] name = "err_on_b" -> IF t = "b" THEN Err("is b") ELSE Ok(t)
      [] name = "err_on_empty" -> IF t = "" THEN Err("is empty") ELSE Ok(t \o "!")

\* The closures passed to apply_mut (FnMut(&mut T) -> String).
MutFns == {"take", "set_a", "read"}
MutFn(name, t) ==
    CASE name = "take" -> [t |-> "", ret |-> t]
      [] name = "set_a" -> [t |-> "a", ret |-> t \o "!"]
      [] name = "read" -> [t |-> t, ret |-> t \o t]

\* (mutant) both elements go through f before either result is looked at.
OptionPairMapEager(self, f) ==
    IF self.shape = "Single"
      THEN LET r == MapFn(f, self.t1)
           IN  [out |-> IF r.ok THEN Ok(Single(r.val)) ELSE r, calls |-> <<self.t1>>]
      ELSE LET u1 == MapFn(f, self.t1)
               u2 == MapFn(f, self.t2)
           IN  [out |-> IF ~u1.ok THEN u1
                        ELSE IF ~u2.ok THEN u2 ELSE Ok(Pair(u1.val, u2.val)),
                calls |-> <<self.t1, self.t2>>]

\* utils.rs:43-55: map; ? returns the first error. f names the closure; out is
\* what map returns, calls the elements f was applied to, in order.
OptionPairMap(self, f) ==
    IF self.shape = "Single"
      THEN LET r == MapFn(f, self.t1)
           IN  [out |-> IF r.ok THEN Ok(Single(r.val)) ELSE r, calls |-> <<self.t1>>]
      ELSE LET u1 == MapFn(f, self.t1)
           IN  IF ~u1.ok
                 THEN [out |-> u1, calls |-> <<self.t1>>]
                 ELSE LET u2 == MapFn(f, self.t2)
                      IN  [out |-> IF ~u2.ok THEN u2 ELSE Ok(Pair(u1.val, u2.val)),
                           calls |-> <<self.t1, self.t2>>]

\* utils.rs:104-110: the closure reduce_str hands to reduce, for separator sep
\* and closure f: the separator is put in when the accumulator is not empty.
JoinFn(sep, f, acc, t) ==
    IF acc = "" THEN ApplyFn(f, t) ELSE acc \o sep \o ApplyFn(f, t)

\* utils.rs:72-83: reduce, with the closure of reduce_str.
OptionPairReduce(self, init, sep, f) ==
    IF self.shape = "Single"
      THEN JoinFn(sep, f, init, self.t1)
      ELSE LET result == JoinFn(sep, f, init, self.t1)
           IN  JoinFn(sep, f, result, self.t2)

\* utils.rs:100-111.
OptionPairReduceStr(self, sep, f) == OptionPairReduce(self, "", sep, f)

\* (mutant) the results change slots.
OptionPairApplySwapped(self, f) ==
    IF self.shape = "Single"
      THEN Single(ApplyFn(f, self.t1))
      ELSE Pair(ApplyFn(f, self.t2), ApplyFn(f, self.t1))

\* utils.rs:128-136.
OptionPairApply(self, f) ==
    IF self.shape = "Single"
      THEN Single(ApplyFn(f, self.t1))
      ELSE Pair(ApplyFn(f, self.t1), ApplyFn(f, self.t2))

\* utils.rs:153-161: f takes each element by &mut; MutFn gives the element's new
\* value (t) and the closure's result (ret).
OptionPairApplyMut(self, f) ==
    IF self.shape = "Single"
      THEN [self |-> Single(MutFn(f, self.t1).t), out |-> Single(MutFn(f, self.t1).ret)]
      ELSE [self |-> Pair(MutFn(f, self.t1).t, MutFn(f, self.t2).t),
            out |-> Pair(MutFn(f, self.t1).ret, MutFn(f, self.t2).ret)]

Seps == {"|", ", "}

PairInit ==
    /\ pair \in PairValues
    /\ pairBefore = pair
    /\ pairOp = "new"
    /\ pairArg = << >>
    /\ pairOut = << >>

PairCallSingle ==
    /\ pairOp' = "single"
    /\ pairArg' = << >>
    /\ pairOut' = OptionPairSingle(pair)
    /\ pairBefore' = pair
    /\ UNCHANGED <<pair, pipeVars, bufVars, scanVars, winVars, candVars, baseVars, curVars, distVars>>

PairCallMap ==
    /\ \E name \in MapFns :
         /\ pairArg' = [f |-> name, calls |-> OptionPairMap(pair, name).calls]
         /\ pairOut' = OptionPairMap(pair, name).out
    /\ pairOp' = "map"
    /\ pairBefore' = pair
    /\ UNCHANGED <<pair, pipeVars, bufVars, scanVars, winVars, candVars, baseVars, curVars, distVars>>

PairCallReduceStr ==
    /\ \E name \in ApplyFns, sep \in Seps :
         /\ pairArg' = [f |-> name, sep |-> sep]
         /\ pairOut' = OptionPairReduceStr(pair, sep, name)
    /\ pairOp' = "reduce_str"
    /\ pairBefore' = pair
    /\ UNCHANGED <<pair, pipeVars, bufVars, scanVars, winVars, candVars, baseVars, curVars, distVars>>

PairCallApply ==
    /\ \E name \in ApplyFns :
         /\ pairArg' = [f |-> name]
         /\ pairOut' = OptionPairApply(pair, name)
    /\ pairOp' = "apply"
    /\ pairBefore' = pair
    /\ UNCHANGED <<pair, pipeVars, bufVars, scanVars, winVars, candVars, baseVars, curVars, distVars>>

PairCallApplyMut ==
    /\ \E name \in MutFns :
         /\ pairArg' = [f |-> name]
         /\ pairOut' = OptionPairApplyMut(pair, name).out
         /\ pair' = OptionPairApplyMut(pair, name).self
    /\ pairOp' = "apply_mut"
    /\ pairBefore' = pair
    /\ UNCHANGED <<pipeVars, bufVars, scanVars, winVars, candVars, baseVars, curVars, distVars>>

InitPair ==
    /\ PipeIdle("read") /\ BufIdle /\ ScanIdle /\ WinIdle /\ CandIdle
    /\ PairInit /\ BaseIdle /\ CurIdle /\ DistIdle

PairNext ==
    \/ PairCallSingle
    \/ PairCallMap
    \/ PairCallReduceStr
    \/ PairCallApply
    \/ PairCallApplyMut

SpecPair == InitPair /\ [][PairNext]_vars

\* A closure of map succeeds on every element of an OptionPair.
MapSucceeds(name, self) ==
    /\ MapFn(name, self.t1).ok
    /\ self.shape = "Pair" => MapFn(name, self.t2).ok

\* C21: map (when f succeeds on every element), apply and apply_mut give Single
\* for Single and Pair for Pair, each output element being f of the element in
\* the same slot, and no call changes the shape of the value it is made on.
C21_ShapePreserved ==
    /\ pair.shape = pairBefore.shape
    /\ pairOp \in {"single", "map", "reduce_str", "apply"} => pair = pairBefore
    /\ pairOp = "apply" =>
         /\ pairOut.shape = pairBefore.shape
         /\ pairOut.t1 = ApplyFn(pairArg.f, pairBefore.t1)
         /\ pairBefore.shape = "Pair" => pairOut.t2 = ApplyFn(pairArg.f, pairBefore.t2)
    /\ pairOp = "apply_mut" =>
         /\ pairOut.shape = pairBefore.shape
         /\ pairOut.t1 = MutFn(pairArg.f, pairBefore.t1).ret
         /\ pair.t1 = MutFn(pairArg.f, pairBefore.t1).t
         /\ pairBefore.shape = "Pair" =>
              /\ pairOut.t2 = MutFn(pairArg.f, pairBefore.t2).ret
              /\ pair.t2 = MutFn(pairArg.f, pairBefore.t2).t
    /\ (pairOp = "map" /\ MapSucceeds(pairArg.f, pairBefore)) =>
         /\ pairOut.ok
         /\ pairOut.val.shape = pairBefore.shape
         /\ pairOut.val.t1 = MapFn(pairArg.f, pairBefore.t1).val
         /\ pairBefore.shape = "Pair" =>
              pairOut.val.t2 = MapFn(pairArg.f, pairBefore.t2).val

\* C21's case: apply on a Pair with different elements gave a Pair with different
\* elements.
C21_Witness ==
    /\ pairOp = "apply"
    /\ pairBefore.shape = "Pair"
    /\ pairBefore.t1 # pairBefore.t2
    /\ pairOut.shape = "Pair"
    /\ pairOut.t1 # pairOut.t2

\* C22: reduce_str gives f(a) on Single(a) and f(a), sep, f(b) on Pair(a, b), for
\* all values of f(a) and f(b), empty strings included.
C22_ReduceStr ==
    pairOp = "reduce_str" =>
        pairOut = IF pairBefore.shape = "Single"
                    THEN ApplyFn(pairArg.f, pairBefore.t1)
                    ELSE ApplyFn(pairArg.f, pairBefore.t1) \o pairArg.sep
                           \o ApplyFn(pairArg.f, pairBefore.t2)

\* C31: on Pair(t1, t2) map applies f to t1 first; if that gives Err(e), map
\* returns Err(e) and f is not applied to t2; if it succeeds and f on t2 gives
\* Err(e), map returns Err(e); the receiver is as it was in every case.
C31_MapOrderAndShortCircuit ==
    (pairOp = "map" /\ pairBefore.shape = "Pair") =>
        LET r1 == MapFn(pairArg.f, pairBefore.t1)
            r2 == MapFn(pairArg.f, pairBefore.t2)
        IN  /\ pair = pairBefore
            /\ pairArg.calls[1] = pairBefore.t1
            /\ ~r1.ok => (pairOut = Err(r1.err) /\ pairArg.calls = <<pairBefore.t1>>)
            /\ r1.ok => pairArg.calls = <<pairBefore.t1, pairBefore.t2>>
            /\ (r1.ok /\ ~r2.ok) => pairOut = Err(r2.err)

\* C31's case: f fails on both elements of a Pair, with different errors: map
\* returned the error of the first and f never saw the second.
C31_Witness ==
    /\ pairOp = "map"
    /\ pairBefore.shape = "Pair"
    /\ ~MapFn(pairArg.f, pairBefore.t1).ok
    /\ ~MapFn(pairArg.f, pairBefore.t2).ok
    /\ MapFn(pairArg.f, pairBefore.t1).err # MapFn(pairArg.f, pairBefore.t2).err
    /\ pairOut = MapFn(pairArg.f, pairBefore.t1)
    /\ Len(pairArg.calls) = 1


\* ======================================================================
\* Base<MinimizerIterator> (mmscanner.rs:276-322)
\* ======================================================================

\* mmscanner.rs:289-291.
BaseFmtSize(body) == OptionPairReduceStr(body, "|", "size")

\* (mutant) the second range is not shifted by the first size.
BaseRangeUnshifted(body) ==
    IF body.shape = "Single"
      THEN Single(<<0, body.t1.size>>)
      ELSE Pair(<<0, body.t1.size>>, <<body.t1.size, body.t2.size>>)

\* mmscanner.rs:313-321.
BaseRange(body) ==
    IF body.shape = "Single"
      THEN Single(<<0, body.t1.size>>)
      ELSE LET size1 == body.t1.size
           IN  Pair(<<0, size1>>, <<size1, body.t2.size + size1>>)

\* The closures passed to fold (FnMut(&mut Vec<T>, &mut MinimizerIterator, usize)
\* -> usize): one that drains the iterator, pushes its items with shifted
\* ordinals and returns offset + size, one that takes a single item and returns
\* the iterator's size, one that touches nothing and returns offset + 1.
FoldFns == {"drain", "first", "skip"}

\* What the closures push for an item (ord, hash): the ordinal shifted by offset.
FoldPush(init, item, offset) == Append(init, <<offset + item[1], item[2]>>)

RECURSIVE FoldDrain(_, _, _)
FoldDrain(init, it, offset) ==
    CHOOSE y \in {IF r.ret = None
                    THEN [init |-> init, it |-> r.it, ret |-> offset + r.it.size]
                    ELSE FoldDrain(FoldPush(init, r.ret[1], offset), r.it, offset) :
                  r \in {IterNext(it)}} : TRUE

FoldFirst(init, it, offset) ==
    CHOOSE y \in {[init |-> IF r.ret = None THEN init ELSE FoldPush(init, r.ret[1], offset),
                   it |-> r.it, ret |-> r.it.size] :
                  r \in {IterNext(it)}} : TRUE

FoldFn(name, init, it, offset) ==
    CASE name = "drain" -> FoldDrain(init, it, offset)
      [] name = "first" -> FoldFirst(init, it, offset)
      [] name = "skip" -> [init |-> init, it |-> it, ret |-> offset + 1]

\* A call of f as fold makes it: which mate, the offset passed, the vector as f
\* found it and as f left it, and what f returned.
FoldCall(slot, offset, before, r) ==
    [slot |-> slot, offset |-> offset, before |-> before, after |-> r.init, ret |-> r.ret]

\* mmscanner.rs:305-306: the two calls made for a Pair, the second with the
\* offset given; r1 is what the first call did.
FoldPair(body, f, r1, offset) ==
    CHOOSE y \in {[body |-> Pair(r1.it, r2.it), init |-> r2.init,
                   calls |-> <<FoldCall(1, 0, << >>, r1),
                               FoldCall(2, offset, r1.init, r2)>>] :
                  r2 \in {FoldFn(f, r1.init, body.t2, offset)}} : TRUE

\* mmscanner.rs:301-303: the call made for a Single.
FoldSingle(body, f) ==
    CHOOSE y \in {[body |-> Single(r.it), init |-> r.init,
                   calls |-> <<FoldCall(1, 0, << >>, r)>>] :
                  r \in {FoldFn(f, << >>, body.t1, 0)}} : TRUE

\* (mutant) the right mate is folded with offset 0.
BaseFoldZeroOffset(body, f) ==
    IF body.shape = "Single"
      THEN FoldSingle(body, f)
      ELSE CHOOSE y \in {FoldPair(body, f, r1, 0) :
                         r1 \in {FoldFn(f, << >>, body.t1, 0)}} : TRUE

\* mmscanner.rs:294-310: fold; the offset of the second call is what the first
\* returned.
BaseFold(body, f) ==
    IF body.shape = "Single"
      THEN FoldSingle(body, f)
      ELSE CHOOSE y \in {FoldPair(body, f, r1, r1.ret) :
                         r1 \in {FoldFn(f, << >>, body.t1, 0)}} : TRUE

\* The mates scanned: none, two and three bytes, and twelve bases (sizes of two
\* digits).
MateSeqs ==
    {<< >>, <<65, 67>>, <<65, 78, 67>>,
     <<65, 67, 71, 84, 65, 67, 71, 84, 65, 67, 71, 84>>}

MateMeros == {MerosNew(1, 1, 0, 0), MerosNew(2, 1, 0, 1)}

\* mmscanner.rs:351-355: the iterator scan_sequence builds for one mate.
ScanMate(seq, meros) ==
    MinimizerIteratorNew(seq, CursorNew(meros), MinimizerWindowNew(WindowSize(meros)),
                         meros)

\* mmscanner.rs:347-366: scan_sequence of a single read or of a pair.
BaseInit ==
    /\ \E meros \in MateMeros :
         \/ \E seq \in MateSeqs : base = Single(ScanMate(seq, meros))
         \/ \E seq1, seq2 \in MateSeqs :
              base = Pair(ScanMate(seq1, meros), ScanMate(seq2, meros))
    /\ baseOp = "new"
    /\ baseItems = <<0, 0>>
    /\ baseFold = << >>

\* The bytes a mate's iterator has left.
MateLeft(it) == it.end - it.pos

\* One call of next on the only iterator or on the left mate.
BaseNextLeft ==
    /\ MateLeft(base.t1) > 0
    /\ \E r \in {IterNext(base.t1)} :
         /\ base' = [base EXCEPT !.t1 = r.it]
         /\ baseItems' = [baseItems EXCEPT ![1] = @ + (IF r.ret = None THEN 0 ELSE 1)]
    /\ baseOp' = "next"
    /\ UNCHANGED <<baseFold, pipeVars, bufVars, scanVars, winVars, candVars, pairVars,
                   curVars, distVars>>

\* One call of next on the right mate.
BaseNextRight ==
    /\ base.shape = "Pair"
    /\ MateLeft(base.t2) > 0
    /\ \E r \in {IterNext(base.t2)} :
         /\ base' = [base EXCEPT !.t2 = r.it]
         /\ baseItems' = [baseItems EXCEPT ![2] = @ + (IF r.ret = None THEN 0 ELSE 1)]
    /\ baseOp' = "next"
    /\ UNCHANGED <<baseFold, pipeVars, bufVars, scanVars, winVars, candVars, pairVars,
                   curVars, distVars>>

\* One call of fold; the items f took from a mate are those it added to the
\* vector.
BaseFoldCall ==
    /\ \E f \in FoldFns :
         \E r \in {BaseFold(base, f)} :
            /\ base' = r.body
            /\ baseFold' = [f |-> f, init |-> r.init, calls |-> r.calls]
            /\ baseItems' =
                 [i \in {1, 2} |->
                    IF i > Len(r.calls)
                      THEN baseItems[i]
                      ELSE baseItems[i] + Len(r.calls[i].after) - Len(r.calls[i].before)]
    /\ baseOp' = "fold"
    /\ UNCHANGED <<pipeVars, bufVars, scanVars, winVars, candVars, pairVars, curVars, distVars>>

InitBase ==
    /\ PipeIdle("read") /\ BufIdle /\ ScanIdle /\ WinIdle /\ CandIdle
    /\ PairIdle /\ BaseInit /\ CurIdle /\ DistIdle

BaseNext ==
    \/ BaseNextLeft
    \/ BaseNextRight
    \/ BaseFoldCall

SpecBase == InitBase /\ [][BaseNext]_vars

\* C23: with s1, s2 the size fields of the mates at any point of iteration, range
\* is Single((0, s)) or Pair((0, s1), (s1, s1 + s2)): the two ranges are
\* adjacent, as long as s1 and s2, and cover [0, s1 + s2); fmt_size is the decimal
\* s, or s1, a bar, s2.
C23_RangeAndFmtSize ==
    LET range == BaseRange(base)
        s1 == base.t1.size
    IN  /\ range.shape = base.shape
        /\ range.t1 = <<0, s1>>
        /\ s1 = baseItems[1]
        /\ base.shape = "Single" => BaseFmtSize(base) = UsizeToString(s1)
        /\ base.shape = "Pair" =>
             LET s2 == base.t2.size
             IN  /\ s2 = baseItems[2]
                 /\ range.t2[1] = range.t1[2]
                 /\ range.t2[2] - range.t2[1] = s2
                 /\ range.t2[2] = s1 + s2
                 /\ BaseFmtSize(base) = UsizeToString(s1) \o "|" \o UsizeToString(s2)
                 /\ (s1 = 12 /\ s2 = 2) => BaseFmtSize(base) = "12|2"
                 /\ (s1 = 0 /\ s2 = 10) => BaseFmtSize(base) = "0|10"

\* C23's case: a pair in the middle of iteration, the left mate with a size of
\* two digits and the right mate with items of its own.
C23_Witness ==
    /\ base.shape = "Pair"
    /\ baseOp = "next"
    /\ base.t1.size = 12
    /\ base.t2.size = 2
    /\ BaseRange(base).t2 = <<12, 14>>

\* C27: fold calls f once for Single, on the only iterator with offset 0, and
\* twice for Pair: on the left mate with offset 0, then on the right mate with
\* the value the first call returned; both calls work on one accumulator, which
\* starts empty and is what fold returns.
C27_FoldProtocol ==
    baseOp = "fold" =>
        LET calls == baseFold.calls
        IN  /\ Len(calls) = (IF base.shape = "Single" THEN 1 ELSE 2)
            /\ calls[1].slot = 1
            /\ calls[1].offset = 0
            /\ calls[1].before = << >>
            /\ base.shape = "Single" => baseFold.init = calls[1].after
            /\ base.shape = "Pair" =>
                 /\ calls[2].slot = 2
                 /\ calls[2].offset = calls[1].ret
                 /\ calls[2].before = calls[1].after
                 /\ baseFold.init = calls[2].after

\* C27's case: a pair folded by the draining closure after the left mate had
\* given items: the right mate's call got a non-zero offset and added items to
\* those of the left.
C27_Witness ==
    /\ baseOp = "fold"
    /\ base.shape = "Pair"
    /\ baseFold.f = "drain"
    /\ baseFold.calls[2].offset > 0
    /\ baseFold.calls[2].before # << >>
    /\ Len(baseFold.init) > Len(baseFold.calls[2].before)


\* ======================================================================
\* Cursor (mmscanner.rs:154-190)
\* ======================================================================

\* Cursor::new for an l_mer.
CurInit ==
    /\ \E l \in 1 .. MaxCurL : cur = CursorNew(MerosNew(l, l, 0, 0))
    /\ curCodes = << >>
    /\ curRet = None
    /\ curOp = "new"
    /\ curCalls = 0

\* One call of next_lmer with a 2-bit code.
CurNextCall ==
    /\ curCalls < MaxCurCalls
    /\ \E item \in 0 .. 3 :
         \E r \in {CursorNextLmer(cur, item)} :
            /\ cur' = r.cursor
            /\ curRet' = r.ret
            /\ curCodes' = Append(curCodes, item)
    /\ curOp' = "next_lmer"
    /\ curCalls' = curCalls + 1
    /\ UNCHANGED <<pipeVars, bufVars, scanVars, winVars, candVars, pairVars, baseVars, distVars>>

\* One call of clear.
CurClearCall ==
    /\ cur' = CursorClear(cur)
    /\ curRet' = None
    /\ curCodes' = << >>
    /\ curOp' = "clear"
    /\ UNCHANGED <<curCalls, pipeVars, bufVars, scanVars, winVars, candVars, pairVars,
                   baseVars, distVars>>

InitCur ==
    /\ PipeIdle("read") /\ BufIdle /\ ScanIdle /\ WinIdle /\ CandIdle
    /\ PairIdle /\ BaseIdle /\ CurInit /\ DistIdle

CurNext ==
    \/ CurNextCall
    \/ CurClearCall

SpecCur == InitCur /\ [][CurNext]_vars

\* The 2-bit packing of a sequence of codes, the oldest in the highest bits.
RECURSIVE PackCodes(_)
PackCodes(codes) ==
    IF codes = << >>
      THEN 0
      ELSE 4 * PackCodes(SubSeq(codes, 1, Len(codes) - 1)) + codes[Len(codes)]

\* C26: value <= mask always; next_lmer returns Some(v) exactly when at least
\* l_mer codes were pushed since construction or the last clear, and v is the
\* packing of the last l_mer of them; after clear the next l_mer - 1 calls return
\* None, so no l-mer returned holds a code pushed before the clear.
C26_RollingLmer ==
    /\ cur.value <= cur.mask
    /\ cur.pos = Len(curCodes)
    /\ curOp = "next_lmer" =>
         /\ curRet # None <=> Len(curCodes) >= cur.capacity
         /\ curRet # None =>
              curRet[1] = PackCodes(SubSeq(curCodes, Len(curCodes) - cur.capacity + 1,
                                           Len(curCodes)))
    /\ (curCalls > 0 /\ Len(curCodes) < cur.capacity) => curRet = None

\* C26's case: a cursor of l_mer 2 was cleared after it had returned l-mers, and
\* has returned an l-mer again, made of codes pushed after the clear.
C26_Witness ==
    /\ cur.capacity = 2
    /\ curOp = "next_lmer"
    /\ curCalls = 5
    /\ Len(curCodes) = 2
    /\ curRet = Some(PackCodes(curCodes))
    /\ curRet[1] > 3


\* ======================================================================
\* MinimizerIterator::next over sequences with line breaks
\* ======================================================================

\* The bytes: A, C, N, a line feed and a carriage return.
LineAlphabet == {65, 67, 78, 10, 13}

LineSeqs == UNION {[1 .. n -> LineAlphabet] : n \in 0 .. MaxLineLen}

\* Windows of one (k_mer = l_mer) and a window of two.
LineMeros == {MerosNew(1, 1, 0, 0), MerosNew(2, 2, 0, 13), MerosNew(2, 1, 0, 1)}

\* mmscanner.rs:351-355: scan_sequence builds the iterator of one sequence.
LineInit ==
    /\ \E seq \in LineSeqs, meros \in LineMeros : iter = ScanMate(seq, meros)
    /\ lastRet = None
    /\ emitted = << >>
    /\ emittedAt = << >>
    /\ noneCalls = 0

InitLine == PipeIdle("read") /\ BufIdle /\ LineInit /\ WinIdle /\ CandIdle /\ UtilIdle

SpecLine == InitLine /\ [][ScanNext]_vars

IsBreak(ch) == ch = 10 \/ ch = 13

\* A sequence without its line feeds and carriage returns.
StripBreaks(seq) == SelectSeq(seq, LAMBDA ch : ~IsBreak(ch))

\* An iterator after n calls of next, with the items the calls returned.
RECURSIVE AfterCalls(_, _, _)
AfterCalls(it, n, acc) ==
    IF n = 0
      THEN [it |-> it, emitted |-> acc]
      ELSE LET r == CHOOSE x \in {IterNext(it)} : TRUE
           IN  AfterCalls(r.it, n - 1,
                          IF r.ret = None THEN acc ELSE Append(acc, r.ret[1]))

\* C24: line feeds and carriage returns put anywhere in a sequence leave the
\* items (ordinal, hash) as they are without them, call by call; consuming such
\* a byte changes neither the cursor nor the window nor size: only the read
\* position moves.
C24_LineBreaksSkipped ==
    LET twin == AfterCalls(ScanMate(StripBreaks(iter.seq), iter.meros),
                           Len(emitted) + noneCalls, << >>)
    IN  /\ twin.emitted = emitted
        /\ twin.it.cursor = iter.cursor
        /\ twin.it.window = iter.window
        /\ twin.it.size = iter.size
        /\ (iter.pos < iter.end /\ IsBreak(iter.seq[iter.pos + 1])) =>
             IterNext(iter) = IterNext([iter EXCEPT !.pos = iter.pos + 1])

\* C24's case: a line feed and a carriage return stand between two bases, and
\* the scan has returned items on both sides of them.
C24_Witness ==
    /\ Len(iter.seq) = 4
    /\ IsBase(iter.seq[1]) /\ IsBase(iter.seq[4])
    /\ {iter.seq[2], iter.seq[3]} = {10, 13}
    /\ Len(emitted) = 2
    /\ emittedAt = <<1, 4>>
    /\ noneCalls = 1

\* C25: a window of capacity 1 returns Some(c) for every candidate c and is left
\* as it was (deque and count); the iterator then returns one item per l-mer the
\* cursor produces, as it produces it: over L bases with L >= l_mer, L - l_mer + 1
\* items, the i-th being the hash of the l-mer that ends at base l_mer - 1 + i.
C25_FastPath ==
    iter.window.capacity = 1 =>
        /\ \A c \in 0 .. iter.meros.mask :
              WindowNext(iter.window, c) = [window |-> iter.window, ret |-> Some(c)]
        /\ OnlyACGT(iter.seq) =>
             /\ \A i \in 1 .. Len(emitted) :
                  /\ emittedAt[i] = iter.meros.l_mer - 1 + i
                  /\ emitted[i][2]
                       = Fmix64(BitXor(ToCandidateLmer(iter.meros,
                                                       LmerAt(iter.seq, i, iter.meros.l_mer)),
                                       iter.meros.toggle_mask))
             /\ (noneCalls > 0 /\ iter.end >= iter.meros.l_mer) =>
                  Len(emitted) = iter.end - iter.meros.l_mer + 1
             /\ (noneCalls > 0 /\ iter.end < iter.meros.l_mer) => emitted = << >>

\* C25's case: a window of one over l-mers of two bases; a sequence of the
\* greatest length, bases only, has been scanned to its end.
C25_Witness ==
    /\ iter.window.capacity = 1
    /\ iter.meros.l_mer = 2
    /\ OnlyACGT(iter.seq)
    /\ iter.end = MaxLineLen
    /\ noneCalls = 1
    /\ Len(emitted) = MaxLineLen - 1
    /\ \E i, j \in 1 .. Len(emitted) : emitted[i][2] # emitted[j][2]


\* ======================================================================
\* SpaceDist (reader.rs:225-276): run-length positions of hit codes
\* ======================================================================

\* reader.rs:198-200
PosDataNew(ext_code, count) == [ext_code |-> ext_code, count |-> count]

\* reader.rs:233-239: range is (a, b); the position starts at a.
SpaceDistNew(range) == [value |-> << >>, range |-> range, pos |-> range[1]]

\* reader.rs:241-245
SpaceDistFillWithZeros(self, gap) ==
    IF gap > 0
      THEN [self EXCEPT !.value = Append(@, PosDataNew(0, gap))]
      ELSE self

\* (mutant) add that does not fill the gap it jumps over.
SpaceDistAddNoGap(self, ext_code, pos) ==
    IF pos <= self.pos \/ pos > self.range[2]
      THEN self
      ELSE LET n == Len(self.value)
           IN  [self EXCEPT
                  !.value = IF n > 0 /\ self.value[n].ext_code = ext_code
                              THEN [self.value EXCEPT ![n].count = @ + 1]
                              ELSE Append(self.value, PosDataNew(ext_code, 1)),
                  !.pos = pos]

\* reader.rs:247-267
SpaceDistAdd(self, ext_code, pos) ==
    IF pos <= self.pos \/ pos > self.range[2]
      THEN self
      ELSE LET gap == pos - self.pos - 1
               filled == IF gap > 0 THEN SpaceDistFillWithZeros(self, gap) ELSE self
               n == Len(filled.value)
           IN  [filled EXCEPT
                  !.value = IF n > 0 /\ filled.value[n].ext_code = ext_code
                              THEN [filled.value EXCEPT ![n].count = @ + 1]
                              ELSE Append(filled.value, PosDataNew(ext_code, 1)),
                  !.pos = pos]

\* reader.rs:270-275
SpaceDistFillTailWithZeros(self) ==
    IF self.pos < self.range[2]
      THEN [SpaceDistFillWithZeros(self, self.range[2] - self.pos)
              EXCEPT !.pos = self.range[2]]
      ELSE self

\* The codes added: 0 (the code fill_with_zeros writes) and the two of the
\* documentation example (reader.rs:217-219).
DistCodes == {0, 42, 43}

\* The positions passed to add: every one up to the first beyond any range.
DistPositions == 0 .. MaxRangeEnd + 1

DistInit ==
    /\ \E a \in 0 .. MaxRangeEnd, b \in 0 .. MaxRangeEnd : dist = SpaceDistNew(<<a, b>>)
    /\ distBefore = << >>
    /\ distOp = "new"
    /\ distArg = << >>

DistAddCall ==
    /\ \E ext_code \in DistCodes, pos \in DistPositions :
         /\ dist' = SpaceDistAdd(dist, ext_code, pos)
         /\ distArg' = [ext_code |-> ext_code, pos |-> pos]
    /\ distBefore' = dist
    /\ distOp' = "add"
    /\ UNCHANGED <<pipeVars, bufVars, scanVars, winVars, candVars, pairVars, baseVars,
                   curVars>>

DistFillTailCall ==
    /\ dist' = SpaceDistFillTailWithZeros(dist)
    /\ distBefore' = dist
    /\ distOp' = "fill_tail_with_zeros"
    /\ distArg' = << >>
    /\ UNCHANGED <<pipeVars, bufVars, scanVars, winVars, candVars, pairVars, baseVars,
                   curVars>>

InitDist ==
    /\ PipeIdle("read") /\ BufIdle /\ ScanIdle /\ WinIdle /\ CandIdle
    /\ PairIdle /\ BaseIdle /\ CurIdle /\ DistInit

DistNext == DistAddCall \/ DistFillTailCall

SpecDist == InitDist /\ [][DistNext]_vars

\* The sum of the count fields of a value.
RECURSIVE SumCounts(_)
SumCounts(value) ==
    IF value = << >> THEN 0 ELSE Head(value).count + SumCounts(Tail(value))

\* An add the code returns from at once (reader.rs:248).
AddRejected ==
    /\ distOp = "add"
    /\ (distArg.pos <= distBefore.pos \/ distArg.pos > distBefore.range[2])

\* C32 as stated: the counts of value sum to (position - a), with
\* a <= position <= b; a rejected add leaves the state as it was; after
\* fill_tail_with_zeros the sum is b - a.
C32_CoverageAsClaimed ==
    /\ SumCounts(dist.value) = dist.pos - dist.range[1]
    /\ dist.range[1] <= dist.pos
    /\ dist.pos <= dist.range[2]
    /\ AddRejected => dist = distBefore
    /\ distOp = "fill_tail_with_zeros" => SumCounts(dist.value) = dist.range[2] - dist.range[1]

\* C32 (amended): the counts of value sum to (position - a), with
\* a <= position <= max(a, b); a rejected add leaves the state as it was; after
\* fill_tail_with_zeros the sum is max(a, b) - a: b - a when a <= b, and 0
\* when a > b.
C32_RunLengthCoverage ==
    /\ SumCounts(dist.value) = dist.pos - dist.range[1]
    /\ dist.range[1] <= dist.pos
    /\ dist.pos <= Max(dist.range[1], dist.range[2])
    /\ AddRejected => dist = distBefore
    /\ distOp = "fill_tail_with_zeros" =>
         SumCounts(dist.value) = Max(dist.range[1], dist.range[2]) - dist.range[1]

\* C32's case, the documentation example in small: a gap filled with zeros, two
\* adds of one code merged into one run, and the tail filled.
C32_Witness ==
    /\ distOp = "fill_tail_with_zeros"
    /\ dist.range = <<0, 4>>
    /\ dist.value = <<PosDataNew(0, 1), PosDataNew(42, 2), PosDataNew(0, 1)>>
    /\ distBefore.pos = 3
    /\ dist.pos = 4


====
